---------------------------- MODULE Spec2Model ----------------------------
(***************************************************************************)
(* A model of the arcade library (arcade.h) and of the main loops of the   *)
(* games built on it.                                                      *)
(*                                                                         *)
(* The module holds several components, each with its own variables and    *)
(* its own specification:                                                  *)
(*   Spec / SpecOncePerTick  the event pump, the key tables and the main   *)
(*                           loop `while (arcade_running() &&              *)
(*                           arcade_update()) { body }`                    *)
(*   SpecLife                arcade_init / arcade_quit and the window      *)
(*                           system resources they acquire and release     *)
(*   SpecImage / SpecSprite  image sprites and animated sprites            *)
(*   SpecCollide             the collision tests                           *)
(*   SpecMove                arcade_move_sprite, arcade_move_image_sprite  *)
(*   SpecFall                a sprite falling to the floor of the window   *)
(*   SpecGroup               the sprite group and the rendering of it      *)
(*   SpecClock               arcade_delta_time                             *)
(*   SpecPaint               draw_sprite: order, transparency, clipping    *)
(*   SpecText                the text calls and the blinking text          *)
(*   SpecTransform           arcade_flip_image, arcade_rotate_image        *)
(*   SpecRelease             arcade_free_image_sprite                      *)
(*   SpecFlappy / SpecPause / SpecEsc                                      *)
(*                           the main loop of Flappy Bird, played with     *)
(*                           Space and R, with Space and P, with Space and *)
(*                           ESC                                           *)
(*   SpecAsteroids           the main loop of Asteroids                    *)
(*   SpecPaddle              the main loop of Paddle Ball                  *)
(* A specification leaves the variables of the other components at their   *)
(* initial values.                                                         *)
(***************************************************************************)
EXTENDS Integers, Sequences, FiniteSets, TLC

VARIABLES
    (* --- event pump, key tables, main loop --------------------------- *)
    platform,              \* the build: "x11" or "win32" (#ifdef _WIN32)
    queue,                 \* OS events pending for this window, oldest first
    key_states,            \* key_states[256], restricted to the modelled slots
    last_key_states,       \* last_key_states[256], likewise
    running,               \* state.running
    global_frame_counter,  \* global_frame_counter
    pc,                    \* position of the main loop
    call,                  \* the most recent library call and its return value
    hist,                  \* history of the run, read by the properties only
    (* --- window system resources -------------------------------------- *)
    handles,               \* the handle fields of `state`: "null", "valid" or
                           \* "dangling" (non-null, its resource released)
    win,                   \* state.width, state.height, state.bg_color
    pixels,                \* the contents of the pixel buffer state.pixels
    held,                  \* the window system resources the process holds
    initCall,              \* the arcade_init call: value returned, resources
                           \* acquired and released by it, in order
    misuse,                \* release calls made on a dangling handle
    player,                \* an animation of the program (ArcadeAnimatedSprite)
    pipe,                  \* an image sprite of the program (ArcadeImageSprite)
    heap,                  \* heap[b]: the number of times block b has been freed
    fault,                 \* a null pointer has been dereferenced
    sc,                    \* the sprite call made last, and what it was given
    (* --- colour sprites, the sprite group, the frame clock ------------ *)
    paddle,                \* a colour sprite of the program (ArcadeSprite)
    ball,                  \* another colour sprite of the program
    group,                 \* the sprite group of the program (SpriteGroup)
    last_time,             \* the static last_time of arcade_delta_time
    screen,                \* what the window shows, pixel by pixel (<<>>: nothing
                           \* presented yet)
    blink,                 \* the blinking text of the program: its blink_interval
                           \* and, per tick so far, whether a call drew it
    image,                 \* the image file the program flips and rotates: its
                           \* width, height and pixels, row by row
    gcall,                 \* the collision, group, render or clock call made
                           \* last, what it was given and what it returned
    game                   \* the variables of main of a game: its state, score
                           \* and objects, and what the last tick of it did

loopVars == <<platform, queue, key_states, last_key_states, running,
              global_frame_counter, pc, call, hist>>

lifeVars == <<handles, win, pixels, held, initCall, misuse>>

spriteVars == <<player, pipe, heap, fault, sc>>

sceneVars == <<paddle, ball, group, last_time, gcall, screen, blink, image,
               game>>

vars == <<loopVars, lifeVars, spriteVars, sceneVars>>

(***************************************************************************)
(* Bounds of the model.                                                    *)
(***************************************************************************)
MaxTicks == 2      \* ticks (successful arcade_update calls) of one run, any body
MaxHold == 3       \* ticks of one run, body querying once per tick
MaxQueue == 2      \* OS events pending at one pump
MaxQueries == 2    \* arcade_key_pressed_once calls in one tick
SubPixel == 2      \* a float is a count of 1/SubPixel pixels
MaxFrames == 3     \* frames of an animation
MaxInterval == 2   \* frame_interval of an animation
MaxHeight == 3     \* window height, in pixels

(***************************************************************************)
(* Key codes (arcade.h, "Key Definitions") and virtual key codes.          *)
(***************************************************************************)
a_space == 32
a_esc == 65307
VK_SPACE == 32
VK_ESCAPE == 27
a_p == 112
a_r == 114
VK_P == 80
VK_R == 82
a_left == 65361
a_right == 65363
VK_LEFT == 37
VK_RIGHT == 39

Keys == {a_space, a_esc}
Platforms == {"x11", "win32"}

\* arcade_to_vk: the Windows virtual key of an arcade key code, 0 when unmapped.
arcade_to_vk(arcade_key) ==
    CASE arcade_key = a_space -> VK_SPACE
      [] arcade_key = a_esc -> VK_ESCAPE
      [] arcade_key = a_p -> VK_P
      [] arcade_key = a_r -> VK_R
      [] arcade_key = a_left -> VK_LEFT
      [] arcade_key = a_right -> VK_RIGHT
      [] OTHER -> 0

\* The index into key_states / last_key_states that a key code selects:
\* `key_val & 0xFF` on X11, arcade_to_vk(key_val) on Windows.
KeySlot(p, key_val) ==
    IF p = "win32" THEN arcade_to_vk(key_val) ELSE key_val % 256

Slots == {KeySlot(p, k) : p \in Platforms, k \in Keys}

AllUp == [s \in Slots |-> 0]

(***************************************************************************)
(* Window system resources.  arcade_init acquires, in this order,          *)
(*   X11:     display (XOpenDisplay), window (XCreateSimpleWindow), pixels *)
(*            (malloc), font (XLoadQueryFont), image (XCreateImage), gc    *)
(*            (XCreateGC)                                                  *)
(*   Windows: hwnd (CreateWindow), hdc (GetDC), hbitmap (CreateDIBSection, *)
(*            which owns the pixel memory), hfont (CreateFont)             *)
(* The results of XCreateSimpleWindow and GetDC are not checked.           *)
(***************************************************************************)
Resources == {"display", "window", "pixels", "font", "image", "gc",
              "hwnd", "hdc", "hbitmap", "hfont"}

InitSteps(p) ==
    IF p = "win32" THEN <<"hwnd", "hdc", "hbitmap", "hfont">>
    ELSE <<"display", "window", "pixels", "font", "image", "gc">>

\* The acquisitions whose failure arcade_init checks.
Checked(p) ==
    IF p = "win32" THEN {"hwnd", "hbitmap", "hfont"}
    ELSE {"display", "pixels", "font", "image", "gc"}

\* The release calls of arcade_init's failure branch for each failed step, in
\* the order the code makes them.
InitUnwind(p, failed) ==
    CASE failed = "pixels" -> <<"XCloseDisplay">>
      [] failed = "font" -> <<"XCloseDisplay", "free">>
      [] failed = "image" -> <<"free", "XCloseDisplay">>
      [] failed = "gc" -> <<"XDestroyImage", "XCloseDisplay">>
      [] failed = "hbitmap" -> <<"ReleaseDC", "DestroyWindow">>
      [] failed = "hfont" -> <<"DeleteObject_hbitmap", "ReleaseDC", "DestroyWindow">>
      [] OTHER -> <<>>

\* The resources a release call releases, in order.  XCloseDisplay ends the
\* connection, and the server destroys the window created over it;
\* XDestroyImage frees the image structure and the pixel data it wraps.
Releases(c) ==
    CASE c = "XCloseDisplay" -> <<"window", "display">>
      [] c = "free" -> <<"pixels">>
      [] c = "XDestroyImage" -> <<"image", "pixels">>
      [] c = "XFreeFont" -> <<"font">>
      [] c = "XFreeGC" -> <<"gc">>
      [] c = "XDestroyWindow" -> <<"window">>
      [] c = "ReleaseDC" -> <<"hdc">>
      [] c = "DestroyWindow" -> <<"hwnd">>
      [] c = "DeleteObject_hbitmap" -> <<"hbitmap">>
      [] c = "DeleteObject_hfont" -> <<"hfont">>
      [] OTHER -> <<>>

\* The handle a release call is given to release, and the other handles it
\* is passed (XFreeFont(display, font), ReleaseDC(hwnd, hdc), ...).
Primary(c) ==
    CASE c = "XCloseDisplay" -> "display"
      [] c = "XDestroyImage" -> "image"
      [] OTHER -> Releases(c)[1]

Uses(c) ==
    CASE c \in {"XFreeFont", "XFreeGC", "XDestroyWindow"} -> {"display"}
      [] c = "ReleaseDC" -> {"hwnd"}
      [] OTHER -> {}

\* One release call on the resource state st = [handles, held, rel, misuse]:
\* a resource held through a valid handle is released and the handle dangles
\* (the code has not reset it); a call that is given or passed a dangling
\* handle is recorded in misuse.
RECURSIVE ReleaseAll(_, _, _)
ReleaseAll(c, rs, st) ==
    IF rs = <<>> THEN st
    ELSE LET r == Head(rs)
             st1 == IF st.handles[r] = "valid"
                    THEN [st EXCEPT !.handles[r] = "dangling",
                                    !.held = @ \ {r},
                                    !.rel = Append(@, r)]
                    ELSE st
         IN  ReleaseAll(c, Tail(rs), st1)

ReleaseCall(c, targets, st) ==
    LET bad == {r \in Uses(c) \cup {Primary(c)} : st.handles[r] = "dangling"}
        st1 == [st EXCEPT !.misuse = @ \cup {<<c, r>> : r \in bad}]
    IN  ReleaseAll(c, targets, st1)

RECURSIVE ReleaseCalls(_, _)
ReleaseCalls(cs, st) ==
    IF cs = <<>> THEN st
    ELSE ReleaseCalls(Tail(cs), ReleaseCall(Head(cs), Releases(Head(cs)), st))

\* The acquisitions of arcade_init up to the failed step (all of them when
\* failed = "none").
RECURSIVE Acquired(_, _)
Acquired(steps, failed) ==
    IF steps = <<>> \/ Head(steps) = failed THEN <<>>
    ELSE <<Head(steps)>> \o Acquired(Tail(steps), failed)

Range(f) == {f[i] : i \in DOMAIN f}

\* arcade_init(window_width, window_height, title, bg_color), the step
\* `failed` failing ("none": no step fails).  The fields of `state` are
\* assigned as the steps succeed; width, height and bg_color are assigned
\* after the pixel buffer (X11) or the window (Windows) exists; the buffer is
\* filled with bg_color.
ArcadeInit(p, w, h, bg, failed, st) ==
    LET acq == Acquired(InitSteps(p), failed)
        got == Range(acq)
        st1 == [st EXCEPT !.handles = [r \in Resources |->
                                          IF r \in got THEN "valid"
                                          ELSE IF r = failed THEN "null" ELSE @[r]],
                          !.held = @ \cup got,
                          !.rel = <<>>]
        st2 == ReleaseCalls(InitUnwind(p, failed), st1)
        sized == IF p = "win32" THEN "hwnd" \in got ELSE "pixels" \in got
    IN  [handles |-> st2.handles, held |-> st2.held, misuse |-> st2.misuse,
         acq |-> acq, rel |-> st2.rel,
         ret |-> IF failed = "none" THEN 0 ELSE 1,
         win |-> IF sized THEN [width |-> w, height |-> h, bg_color |-> bg]
                 ELSE st.win,
         running |-> IF sized THEN 1 ELSE st.running,
         pixels |-> IF failed = "none" THEN [i \in 1..(w * h) |-> bg] ELSE <<>>]

\* arcade_quit: each handle that is not null is released and reset, in the
\* order of the code; state.pixels is reset with the image (X11) or the
\* bitmap (Windows).
QuitCalls(p) ==
    IF p = "win32"
    THEN <<"DeleteObject_hfont", "DeleteObject_hbitmap", "ReleaseDC", "DestroyWindow">>
    ELSE <<"XFreeFont", "XDestroyImage", "XFreeGC", "XDestroyWindow", "XCloseDisplay">>

\* The handle arcade_quit tests before a release call, and the handles it
\* resets after it.
QuitTest(c) ==
    CASE c = "XFreeFont" -> {"font"}
      [] c = "XDestroyImage" -> {"image"}
      [] c = "XFreeGC" -> {"gc"}
      [] c = "XDestroyWindow" -> {"display", "window"}
      [] c = "XCloseDisplay" -> {"display"}
      [] c = "DeleteObject_hfont" -> {"hfont"}
      [] c = "DeleteObject_hbitmap" -> {"hbitmap"}
      [] c = "ReleaseDC" -> {"hdc"}
      [] OTHER -> {"hwnd"}

QuitReset(c) ==
    CASE c = "XFreeFont" -> {"font"}
      [] c = "XDestroyImage" -> {"image", "pixels"}
      [] c = "XFreeGC" -> {"gc"}
      [] c = "XDestroyWindow" -> {"window"}
      [] c = "XCloseDisplay" -> {"display"}
      [] c = "DeleteObject_hfont" -> {"hfont"}
      [] c = "DeleteObject_hbitmap" -> {"hbitmap", "pixels"}
      [] c = "ReleaseDC" -> {"hdc"}
      [] OTHER -> {"hwnd"}

\* The resources a quit call releases: as Releases, but XDestroyWindow has
\* destroyed the window before XCloseDisplay is called.
RECURSIVE QuitSteps(_, _)
QuitSteps(cs, st) ==
    IF cs = <<>> THEN st
    ELSE LET c == Head(cs)
             targets == IF c = "XCloseDisplay" THEN <<"display">> ELSE Releases(c)
             st1 == IF \A r \in QuitTest(c) : st.handles[r] # "null"
                    THEN LET d == ReleaseCall(c, targets, st)
                         IN  [d EXCEPT !.handles = [r \in Resources |->
                                          IF r \in QuitReset(c) THEN "null" ELSE @[r]]]
                    ELSE st
         IN  QuitSteps(Tail(cs), st1)

ArcadeQuit(p, st) == QuitSteps(QuitCalls(p), st)

(***************************************************************************)
(* Sprites.  A float is modelled by an integer count of 1/SubPixel pixels  *)
(* (all values used are exactly representable); an int is modelled by an   *)
(* integer.  The heap is the sequence of the blocks allocated so far:      *)
(* heap[b] is the number of times block b has been freed; a pointer is a   *)
(* block number, 0 the null pointer.                                       *)
(***************************************************************************)
ToInt(f) == IF f >= 0 THEN f \div SubPixel ELSE -((-f) \div SubPixel)

ToFloat(i) == i * SubPixel

Alloc(h) == Append(h, 0)

Free(h, b) == [h EXCEPT ![b] = @ + 1]

Live(h) == {b \in DOMAIN h : h[b] = 0}

\* What happens when a file is loaded: every stage succeeds ("ok"), or the
\* named stage fails; "NULL" is a null filename.
LoadFailures == {"decode", "resized_alloc", "resize", "pixels_alloc"}
Files == {"ok", "NULL"} \cup LoadFailures

\* load_image_sprite(sprite, filename, target_width, target_height) on heap
\* h: the return value, the sprite and the heap after the call.
load_image_sprite(sprite, filename, target_width, target_height, h) ==
    IF filename \in {"NULL", "decode"}
    THEN [ret |-> 1, sprite |-> sprite, heap |-> h]
    ELSE
    LET h1 == Alloc(h)
        data == Len(h1)
    IN  IF filename = "resized_alloc"
        THEN [ret |-> 1, sprite |-> sprite, heap |-> Free(h1, data)]
        ELSE
        LET h2 == Alloc(h1)
            resized_data == Len(h2)
        IN  IF filename = "resize"
            THEN [ret |-> 1, sprite |-> sprite,
                  heap |-> Free(Free(h2, data), resized_data)]
            ELSE
            LET s1 == [sprite EXCEPT !.image_width = target_width,
                                     !.image_height = target_height]
            IN  IF filename = "pixels_alloc"
                THEN [ret |-> 1, sprite |-> [s1 EXCEPT !.pixels = 0],
                      heap |-> Free(Free(h2, data), resized_data)]
                ELSE
                LET h3 == Alloc(h2)
                IN  [ret |-> 0,
                     sprite |-> [s1 EXCEPT !.pixels = Len(h3),
                                           !.width = ToFloat(target_width),
                                           !.height = ToFloat(target_height),
                                           !.active = 1],
                     heap |-> Free(Free(h3, data), resized_data)]

\* arcade_create_image_sprite(x, y, w, h, filename) on heap hp.
ArcadeCreateImageSprite(x, y, w, h, filename, hp) ==
    LET sprite == [x |-> x, y |-> y, width |-> 0, height |-> 0, vx |-> 0, vy |-> 0,
                   pixels |-> 0, image_width |-> 0, image_height |-> 0, active |-> 1]
        r == load_image_sprite(sprite, filename, ToInt(w), ToInt(h), hp)
    IN  IF filename = "NULL" THEN [sprite |-> sprite, heap |-> hp]
        ELSE IF r.ret # 0 THEN [sprite |-> [r.sprite EXCEPT !.pixels = 0], heap |-> r.heap]
        ELSE [sprite |-> r.sprite, heap |-> r.heap]

\* A release that leaves the pointer in the sprite.
ArcadeFreeImageSpriteKeepsPointer(sprite, hp) ==
    IF sprite.pixels # 0
    THEN [sprite |-> [sprite EXCEPT !.image_width = 0, !.image_height = 0, !.active = 0],
          heap |-> Free(hp, sprite.pixels)]
    ELSE [sprite |-> sprite, heap |-> hp]

\* arcade_free_image_sprite(sprite) on heap hp (sprite not null).
ArcadeFreeImageSprite(sprite, hp) ==
    IF sprite.pixels # 0
    THEN [sprite |-> [sprite EXCEPT !.pixels = 0, !.image_width = 0,
                                    !.image_height = 0, !.active = 0],
          heap |-> Free(hp, sprite.pixels)]
    ELSE [sprite |-> sprite, heap |-> hp]

\* A move of an image sprite without the floor of the window.
ArcadeMoveImageSpriteNoFloor(sprite, gravity, window_height) ==
    IF sprite.active = 0 THEN sprite
    ELSE
    LET s1 == [sprite EXCEPT !.vy = @ + gravity]
        s2 == [s1 EXCEPT !.y = @ + s1.vy]
        s3 == [s2 EXCEPT !.x = @ + s2.vx]
    IN  IF s3.y < 0 THEN [s3 EXCEPT !.y = 0, !.vy = 0] ELSE s3

\* arcade_move_image_sprite(sprite, gravity, window_height) (sprite not null).
ArcadeMoveImageSprite(sprite, gravity, window_height) ==
    IF sprite.active = 0 THEN sprite
    ELSE
    LET s1 == [sprite EXCEPT !.vy = @ + gravity]
        s2 == [s1 EXCEPT !.y = @ + s1.vy]
        s3 == [s2 EXCEPT !.x = @ + s2.vx]
        s4 == IF s3.y < 0 THEN [s3 EXCEPT !.y = 0, !.vy = 0] ELSE s3
        floor == ToFloat(window_height) - s4.height
    IN  IF s4.y > floor THEN [s4 EXCEPT !.y = floor, !.vy = 0] ELSE s4

\* A move that keeps vy when the floor of the window is applied.
move_sprite_keeps_vy(sprite, gravity, window_height) ==
    IF sprite.active = 0 THEN sprite
    ELSE
    LET s1 == [sprite EXCEPT !.vy = @ + gravity]
        s2 == [s1 EXCEPT !.y = @ + s1.vy]
        s3 == [s2 EXCEPT !.x = @ + s2.vx]
        s4 == IF s3.y < 0 THEN [s3 EXCEPT !.y = 0, !.vy = 0] ELSE s3
        floor == ToFloat(window_height) - s4.height
    IN  IF s4.y > floor THEN [s4 EXCEPT !.y = floor] ELSE s4

\* move_sprite(sprite, gravity, window_height) (sprite not null).
move_sprite(sprite, gravity, window_height) ==
    IF sprite.active = 0 THEN sprite
    ELSE
    LET s1 == [sprite EXCEPT !.vy = @ + gravity]
        s2 == [s1 EXCEPT !.y = @ + s1.vy]
        s3 == [s2 EXCEPT !.x = @ + s2.vx]
        s4 == IF s3.y < 0 THEN [s3 EXCEPT !.y = 0, !.vy = 0] ELSE s3
        floor == ToFloat(window_height) - s4.height
    IN  IF s4.y > floor THEN [s4 EXCEPT !.y = floor, !.vy = 0] ELSE s4

\* arcade_move_sprite(sprite, gravity, window_height) (sprite not null).
ArcadeMoveSprite(sprite, gravity, window_height) ==
    move_sprite(sprite, gravity, window_height)

\* An animation: `frames` is the pointer to the frame array, elems its
\* contents.  EmptyAnim is (ArcadeAnimatedSprite){0}.
EmptyAnim ==
    [frames |-> 0, elems |-> <<>>, frame_count |-> 0, current_frame |-> 0,
     frame_interval |-> 0, frame_counter |-> 0]

\* arcade_free_image_sprite on the frames j.. of a frame array, in order.
RECURSIVE FreeFrames(_, _, _)
FreeFrames(elems, j, hp) ==
    IF j > Len(elems) THEN [elems |-> elems, heap |-> hp]
    ELSE LET r == ArcadeFreeImageSprite(elems[j], hp)
         IN  FreeFrames([elems EXCEPT ![j] = r.sprite], j + 1, r.heap)

\* A mutant: when a frame fails to load, the frames loaded before it are not
\* freed.
RECURSIVE CreateFramesLeaks(_, _, _, _, _, _, _, _)
CreateFramesLeaks(x, y, w, h, filenames, arr, elems, hp) ==
    IF Len(elems) = Len(filenames) THEN [ok |-> TRUE, elems |-> elems, heap |-> hp]
    ELSE LET r == ArcadeCreateImageSprite(x, y, w, h, filenames[Len(elems) + 1], hp)
         IN  IF r.sprite.pixels = 0
             THEN [ok |-> FALSE, elems |-> <<>>, heap |-> Free(r.heap, arr)]
             ELSE CreateFramesLeaks(x, y, w, h, filenames, arr,
                                    Append(elems, r.sprite), r.heap)

\* The loop of arcade_create_animated_sprite over the frames, elems being
\* the frames created so far in the array arr.
RECURSIVE CreateFrames(_, _, _, _, _, _, _, _)
CreateFrames(x, y, w, h, filenames, arr, elems, hp) ==
    IF Len(elems) = Len(filenames) THEN [ok |-> TRUE, elems |-> elems, heap |-> hp]
    ELSE LET r == ArcadeCreateImageSprite(x, y, w, h, filenames[Len(elems) + 1], hp)
         IN  IF r.sprite.pixels = 0
             THEN [ok |-> FALSE, elems |-> <<>>,
                   heap |-> Free(FreeFrames(elems, 1, r.heap).heap, arr)]
             ELSE CreateFrames(x, y, w, h, filenames, arr,
                               Append(elems, r.sprite), r.heap)

\* arcade_create_animated_sprite(x, y, w, h, filenames, frame_count,
\* frame_interval), frame_count = Len(filenames) >= 1, on heap hp.  The
\* result of malloc for the frame array is not checked: when it is null
\* (array_ok false) the store of the first frame dereferences a null
\* pointer, and the call does not return (fault).
ArcadeCreateAnimatedSprite(x, y, w, h, filenames, frame_interval, array_ok, hp) ==
    IF ~array_ok
    THEN [fault |-> TRUE, anim |-> EmptyAnim,
          heap |-> ArcadeCreateImageSprite(x, y, w, h, filenames[1], hp).heap]
    ELSE
    LET h1 == Alloc(hp)
        arr == Len(h1)
        r == CreateFrames(x, y, w, h, filenames, arr, <<>>, h1)
    IN  IF ~r.ok THEN [fault |-> FALSE, anim |-> EmptyAnim, heap |-> r.heap]
        ELSE [fault |-> FALSE,
              anim |-> [frames |-> arr,
                        elems |-> [r.elems EXCEPT ![1].active = 1],
                        frame_count |-> Len(filenames),
                        current_frame |-> 0,
                        frame_interval |-> frame_interval,
                        frame_counter |-> 0],
              heap |-> r.heap]

\* arcade_free_animated_sprite(anim) on heap hp (anim not null).
ArcadeFreeAnimatedSprite(anim, hp) ==
    IF anim.frames = 0 THEN [anim |-> anim, heap |-> hp]
    ELSE LET r == FreeFrames(anim.elems, 1, hp)
         IN  [anim |-> [anim EXCEPT !.frames = 0, !.elems = <<>>, !.frame_count = 0],
              heap |-> Free(r.heap, anim.frames)]

\* A mutant: the frame advances one call late (> for >=).
ArcadeMoveAnimatedSpriteLate(anim, gravity, window_height) ==
    IF anim.elems[1].active = 0 THEN anim
    ELSE
    LET cur == anim.current_frame + 1
        current == ArcadeMoveImageSprite(anim.elems[cur], gravity, window_height)
        elems == [i \in 1..anim.frame_count |->
                    [(IF i = cur THEN current ELSE anim.elems[i])
                        EXCEPT !.x = current.x, !.y = current.y,
                               !.vx = current.vx, !.vy = current.vy]]
        counter == anim.frame_counter + 1
    IN  IF counter > anim.frame_interval
        THEN [anim EXCEPT !.elems = elems,
                          !.current_frame = (@ + 1) % anim.frame_count,
                          !.frame_counter = 0]
        ELSE [anim EXCEPT !.elems = elems, !.frame_counter = counter]

\* A mutant: the velocity of the current frame is not copied to the others.
ArcadeMoveAnimatedSpritePositionOnly(anim, gravity, window_height) ==
    IF anim.elems[1].active = 0 THEN anim
    ELSE
    LET cur == anim.current_frame + 1
        current == ArcadeMoveImageSprite(anim.elems[cur], gravity, window_height)
        elems == [i \in 1..anim.frame_count |->
                    [(IF i = cur THEN current ELSE anim.elems[i])
                        EXCEPT !.x = current.x, !.y = current.y]]
        counter == anim.frame_counter + 1
    IN  IF counter >= anim.frame_interval
        THEN [anim EXCEPT !.elems = elems,
                          !.current_frame = (@ + 1) % anim.frame_count,
                          !.frame_counter = 0]
        ELSE [anim EXCEPT !.elems = elems, !.frame_counter = counter]

\* A mutant: the frame index is advanced without the wrap to frame_count.
ArcadeMoveAnimatedSpriteNoWrap(anim, gravity, window_height) ==
    IF anim.elems[1].active = 0 THEN anim
    ELSE
    LET cur == (anim.current_frame % anim.frame_count) + 1
        current == ArcadeMoveImageSprite(anim.elems[cur], gravity, window_height)
        elems == [i \in 1..anim.frame_count |->
                    [(IF i = cur THEN current ELSE anim.elems[i])
                        EXCEPT !.x = current.x, !.y = current.y,
                               !.vx = current.vx, !.vy = current.vy]]
        counter == anim.frame_counter + 1
    IN  IF counter >= anim.frame_interval
        THEN [anim EXCEPT !.elems = elems,
                          !.current_frame = @ + 1,
                          !.frame_counter = 0]
        ELSE [anim EXCEPT !.elems = elems, !.frame_counter = counter]

\* arcade_move_animated_sprite(anim, gravity, window_height), anim and
\* anim->frames not null.
ArcadeMoveAnimatedSprite(anim, gravity, window_height) ==
    IF anim.elems[1].active = 0 THEN anim
    ELSE
    LET cur == anim.current_frame + 1
        current == ArcadeMoveImageSprite(anim.elems[cur], gravity, window_height)
        elems == [i \in 1..anim.frame_count |->
                    [(IF i = cur THEN current ELSE anim.elems[i])
                        EXCEPT !.x = current.x, !.y = current.y,
                               !.vx = current.vx, !.vy = current.vy]]
        counter == anim.frame_counter + 1
    IN  IF counter >= anim.frame_interval
        THEN [anim EXCEPT !.elems = elems,
                          !.current_frame = (@ + 1) % anim.frame_count,
                          !.frame_counter = 0]
        ELSE [anim EXCEPT !.elems = elems, !.frame_counter = counter]

(***************************************************************************)
(* Collision tests.  A pointer argument is given as a flag (the pointer is *)
(* null) and the sprite it points to (read only when the flag is FALSE).   *)
(***************************************************************************)
\* The test with its first comparison not strict.
check_collision_left_closed(a_null, a, b_null, b) ==
    IF a_null \/ b_null THEN 0
    ELSE IF a.active = 0 \/ b.active = 0 THEN 0
    ELSE IF /\ a.x <= b.x + b.width
            /\ a.x + a.width > b.x
            /\ a.y < b.y + b.height
            /\ a.y + a.height > b.y
         THEN 1 ELSE 0

\* check_collision(a, b)
check_collision(a_null, a, b_null, b) ==
    IF a_null \/ b_null THEN 0
    ELSE IF a.active = 0 \/ b.active = 0 THEN 0
    ELSE IF /\ a.x < b.x + b.width
            /\ a.x + a.width > b.x
            /\ a.y < b.y + b.height
            /\ a.y + a.height > b.y
         THEN 1 ELSE 0

\* arcade_check_collision(a, b)
ArcadeCheckCollision(a_null, a, b_null, b) ==
    IF a_null \/ b_null THEN 0 ELSE check_collision(a_null, a, b_null, b)

\* The test without the test of the active flags.
ArcadeCheckImageCollisionAnyState(a_null, a, b_null, b) ==
    IF a_null \/ b_null THEN 0
    ELSE IF /\ a.x < b.x + b.width
            /\ a.x + a.width > b.x
            /\ a.y < b.y + b.height
            /\ a.y + a.height > b.y
         THEN 1 ELSE 0

\* The test with no comparison strict: rectangles that touch collide.
ArcadeCheckImageCollisionTouching(a_null, a, b_null, b) ==
    IF a_null \/ b_null THEN 0
    ELSE IF a.active = 0 \/ b.active = 0 THEN 0
    ELSE IF /\ a.x <= b.x + b.width
            /\ a.x + a.width >= b.x
            /\ a.y <= b.y + b.height
            /\ a.y + a.height >= b.y
         THEN 1 ELSE 0

\* arcade_check_image_collision(a, b)
ArcadeCheckImageCollision(a_null, a, b_null, b) ==
    IF a_null \/ b_null THEN 0
    ELSE IF a.active = 0 \/ b.active = 0 THEN 0
    ELSE IF /\ a.x < b.x + b.width
            /\ a.x + a.width > b.x
            /\ a.y < b.y + b.height
            /\ a.y + a.height > b.y
         THEN 1 ELSE 0

\* The test on the first frame of the animation.
ArcadeCheckAnimatedCollisionFirstFrame(anim_null, anim, other_null, other) ==
    IF anim_null \/ other_null THEN [fault |-> FALSE, ret |-> 0]
    ELSE IF anim.frames = 0 THEN [fault |-> TRUE, ret |-> 0]
    ELSE IF anim.elems[1].active = 0 \/ other.active = 0 THEN [fault |-> FALSE, ret |-> 0]
    ELSE [fault |-> FALSE,
          ret |-> ArcadeCheckImageCollision(FALSE, anim.elems[1], FALSE, other)]

\* arcade_check_animated_collision(anim, other).  With anim->frames null
\* the test of frames[0].active dereferences a null pointer.
ArcadeCheckAnimatedCollision(anim_null, anim, other_null, other) ==
    IF anim_null \/ other_null THEN [fault |-> FALSE, ret |-> 0]
    ELSE IF anim.frames = 0 THEN [fault |-> TRUE, ret |-> 0]
    ELSE IF anim.elems[1].active = 0 \/ other.active = 0 THEN [fault |-> FALSE, ret |-> 0]
    ELSE [fault |-> FALSE,
          ret |-> ArcadeCheckImageCollision(FALSE, anim.elems[anim.current_frame + 1],
                                            FALSE, other)]

(***************************************************************************)
(* Sprite groups and rendering.  An entry of a group is a slot of the      *)
(* arrays `sprites` and `types`: a copy of a sprite and its kind.  A       *)
(* pixel is a 32-bit value, its top byte the alpha of an image pixel.      *)
(***************************************************************************)
SPRITE_COLOR == 0
SPRITE_IMAGE == 1

\* A colour sprite the program has not initialised (static storage).
NoColorSprite ==
    [x |-> 0, y |-> 0, width |-> 0, height |-> 0, vy |-> 0, vx |-> 0,
     color |-> 0, active |-> 0]

\* A slot that has not been written since malloc.
Garbage == [type |-> -1, sprite |-> NoColorSprite]

\* The pixel (sx, sy) of the image in block b, as the files of the model
\* decode: alpha 127 where sx + sy is even, fully transparent elsewhere.
Texel(b, sx, sy) == IF (sx + sy) % 2 = 0 THEN 127 * (2 ^ 24) + b ELSE 0

\* arcade_init_group(group, capacity) on heap hp; sprites_ok and types_ok:
\* the malloc calls return memory.  The results are not checked.
ArcadeInitGroup(capacity, sprites_ok, types_ok, hp) ==
    LET h1 == IF sprites_ok THEN Alloc(hp) ELSE hp
        h2 == IF types_ok THEN Alloc(h1) ELSE h1
    IN  [group |-> [sprites |-> IF sprites_ok THEN Len(h1) ELSE 0,
                    types |-> IF types_ok THEN Len(h2) ELSE 0,
                    slots |-> [i \in 1..capacity |-> Garbage],
                    count |-> 0,
                    capacity |-> capacity],
         heap |-> h2]

\* An add without the test of the count: in a full group it overwrites the
\* last entry.
ArcadeAddSpriteToGroupOverwrites(g, sprite, type) ==
    IF g.sprites = 0 \/ g.types = 0 THEN [fault |-> TRUE, group |-> g]
    ELSE IF g.capacity = 0 THEN [fault |-> FALSE, group |-> g]
    ELSE LET at == IF g.count < g.capacity THEN g.count + 1 ELSE g.capacity
         IN  [fault |-> FALSE,
              group |-> [g EXCEPT !.slots[at] = [type |-> type, sprite |-> sprite],
                                  !.count = at]]

\* arcade_add_sprite_to_group(group, sprite, type).  With room in the group
\* and an array that malloc did not return, the write goes through a null
\* pointer.
ArcadeAddSpriteToGroup(g, sprite, type) ==
    IF g.count < g.capacity
    THEN IF g.sprites = 0 \/ g.types = 0 THEN [fault |-> TRUE, group |-> g]
         ELSE [fault |-> FALSE,
               group |-> [g EXCEPT !.slots[g.count + 1] = [type |-> type, sprite |-> sprite],
                                   !.count = @ + 1]]
    ELSE [fault |-> FALSE, group |-> g]

\* An add of the animation that takes its first frame.
ArcadeAddAnimatedToGroupFirstFrame(g, is_null, anim) ==
    IF is_null THEN [fault |-> FALSE, group |-> g]
    ELSE IF anim.frames = 0 THEN [fault |-> TRUE, group |-> g]
    ELSE IF anim.elems[1].active = 0 THEN [fault |-> FALSE, group |-> g]
    ELSE ArcadeAddSpriteToGroup(g, anim.elems[1], SPRITE_IMAGE)

\* arcade_add_animated_to_group(group, anim); is_null: anim is a null
\* pointer.  With anim->frames null the test of frames[0].active
\* dereferences a null pointer.
ArcadeAddAnimatedToGroup(g, is_null, anim) ==
    IF is_null THEN [fault |-> FALSE, group |-> g]
    ELSE IF anim.frames = 0 THEN [fault |-> TRUE, group |-> g]
    ELSE IF anim.elems[1].active = 0 THEN [fault |-> FALSE, group |-> g]
    ELSE ArcadeAddSpriteToGroup(g, anim.elems[anim.current_frame + 1], SPRITE_IMAGE)

\* The loops of draw_sprite without the tests against the right and the
\* bottom edge of the window.
VisitsPastEdges(e, w) ==
    LET s == e.sprite
        x_start == ToInt(s.x)
        y_start == ToInt(s.y)
        x_end == x_start + ToInt(s.width)
        y_end == y_start + ToInt(s.height)
    IN  IF e.type = SPRITE_COLOR /\ s.active # 0
        THEN {[x |-> x, y |-> y, sx |-> 0, sy |-> 0] :
                 x \in {c \in x_start..(x_end - 1) : c >= 0},
                 y \in {r \in y_start..(y_end - 1) : r >= 0}}
        ELSE IF e.type = SPRITE_IMAGE /\ s.active # 0 /\ s.pixels # 0
        THEN {[x |-> x, y |-> y, sx |-> x - x_start, sy |-> y - y_start] :
                 x \in {c \in x_start..(x_end - 1) :
                           c - x_start < s.image_width /\ c >= 0},
                 y \in {r \in y_start..(y_end - 1) :
                           r - y_start < s.image_height /\ r >= 0}}
        ELSE {}

\* draw_sprite(sprite, type) in the window w: the iterations of its loops
\* that reach the innermost statement, each with the window pixel (x, y) it
\* addresses and, for an image, the source pixel (sx, sy) it reads.  The
\* loops run from x_start and y_start (sx and sy from 0) while the
\* conditions `x < x_end && x < state.width (&& sx < iw)` and
\* `y < y_end && y < state.height (&& sy < ih)` hold, and skip x < 0, y < 0.
Visits(e, w) ==
    LET s == e.sprite
        x_start == ToInt(s.x)
        y_start == ToInt(s.y)
        x_end == x_start + ToInt(s.width)
        y_end == y_start + ToInt(s.height)
    IN  IF e.type = SPRITE_COLOR /\ s.active # 0
        THEN {[x |-> x, y |-> y, sx |-> 0, sy |-> 0] :
                 x \in {c \in x_start..(x_end - 1) : c < w.width /\ c >= 0},
                 y \in {r \in y_start..(y_end - 1) : r < w.height /\ r >= 0}}
        ELSE IF e.type = SPRITE_IMAGE /\ s.active # 0 /\ s.pixels # 0
        THEN {[x |-> x, y |-> y, sx |-> x - x_start, sy |-> y - y_start] :
                 x \in {c \in x_start..(x_end - 1) :
                           c < w.width /\ c - x_start < s.image_width /\ c >= 0},
                 y \in {r \in y_start..(y_end - 1) :
                           r < w.height /\ r - y_start < s.image_height /\ r >= 0}}
        ELSE {}

\* The innermost statement that mixes the image pixel with the pixel of the
\* buffer.
DrawnBlended(e, v, dest) ==
    IF e.type = SPRITE_COLOR THEN e.sprite.color
    ELSE LET pixel == Texel(e.sprite.pixels, v.sx, v.sy)
         IN  IF pixel \div (2 ^ 24) > 0 THEN (pixel + dest) \div 2 ELSE -1

\* The innermost statement of draw_sprite in the iteration v, the buffer
\* pixel holding dest: the value it stores in the buffer, -1 when it stores
\* none (`if ((pixel >> 24) > 0)`).
Drawn(e, v, dest) ==
    IF e.type = SPRITE_COLOR THEN e.sprite.color
    ELSE LET pixel == Texel(e.sprite.pixels, v.sx, v.sy)
         IN  IF pixel \div (2 ^ 24) > 0 THEN pixel ELSE -1

\* What the iterations vs of draw_sprite store at the index i of a buffer
\* `width` pixels wide (state.pixels[y * state.width + x]) that holds dest
\* there: the value of the last store, -1 when there is none.
Painted(e, vs, width, i, dest) ==
    LET hits == {v \in vs : v.y * width + v.x = i /\ Drawn(e, v, dest) # -1}
    IN  IF hits = {} THEN -1
        ELSE Drawn(e, CHOOSE v \in hits : \A u \in hits : u.y <= v.y, dest)

\* draw_sprite on the pixel buffer px of the window w.
draw_sprite(e, px, w) ==
    LET vs == Visits(e, w)
    IN  [i \in 1..Len(px) |->
            LET c == Painted(e, vs, w.width, i - 1, px[i])
            IN  IF c = -1 THEN px[i] ELSE c]

\* The loop of arcade_render_scene run from the last entry to the first.
RECURSIVE DrawAllFrontToBack(_, _, _, _, _)
DrawAllFrontToBack(slots, i, count, px, w) ==
    IF i > count THEN px
    ELSE draw_sprite(slots[i], DrawAllFrontToBack(slots, i + 1, count, px, w), w)

\* The loop of arcade_render_scene over the entries i..count.
RECURSIVE DrawAll(_, _, _, _, _)
DrawAll(slots, i, count, px, w) ==
    IF i > count THEN px
    ELSE DrawAll(slots, i + 1, count, draw_sprite(slots[i], px, w), w)

\* A render that paints over what the buffer holds.
ArcadeRenderSceneNoClear(slots, count, px, w) ==
    DrawAll(slots, 1, count, px, w)

\* A render that paints the entries from the last to the first.
ArcadeRenderSceneFrontToBack(slots, count, px, w) ==
    DrawAllFrontToBack(slots, 1, count,
                       [i \in 1..(w.width * w.height) |-> w.bg_color], w)

\* arcade_render_scene(sprites, count, types) on the pixel buffer px of the
\* window w: the buffer after the call (it is then copied to the window).
ArcadeRenderScene(slots, count, px, w) ==
    DrawAll(slots, 1, count, [i \in 1..(w.width * w.height) |-> w.bg_color], w)

\* arcade_render_group(group)
ArcadeRenderGroup(g, px, w) == ArcadeRenderScene(g.slots, g.count, px, w)

(***************************************************************************)
(* Text.  A text is its length in characters (-1: a null pointer); in the  *)
(* font of the model a character is one pixel wide and one pixel high.     *)
(* The window system clips the text to the window.                         *)
(***************************************************************************)
\* A colour 0xRRGGBB as SetTextColor reads it (a COLORREF is 0x00bbggrr) and
\* as the 32-bit bitmap then holds it.
ColorRef(color) ==
    (color % 256) * 65536 + ((color \div 256) % 256) * 256 + ((color \div 65536) % 256)

\* The indices of the window pixels that a text of n characters drawn at
\* ((int)x, (int)y) covers.
TextPixels(n, x, y, w) ==
    {ToInt(y) * w.width + c :
        c \in {d \in ToInt(x)..(ToInt(x) + n - 1) :
                  /\ 0 <= d /\ d < w.width
                  /\ 0 <= ToInt(y) /\ ToInt(y) < w.height}}

\* The pixels px with the pixels at the indices in `at` set to color.
Overlay(px, at, color) ==
    [i \in DOMAIN px |-> IF (i - 1) \in at THEN color ELSE px[i]]

\* A text call that draws into the pixel buffer and presents it in both
\* builds.
ArcadeRenderTextIntoBuffer(p, font, text, x, y, color, px, scr, w) ==
    IF text = -1 \/ font = "null" THEN [pixels |-> px, screen |-> scr]
    ELSE LET drawn == Overlay(px, TextPixels(text, x, y, w), color)
         IN  [pixels |-> drawn, screen |-> drawn]

\* arcade_render_text(text, x, y, color) in the build p, with the font
\* handle `font`, the pixel buffer px and the window showing scr: the pixel
\* buffer and the window after the call.  Windows: the text is drawn into
\* state.hbitmap, whose bits are state.pixels, and the bitmap is copied to
\* the window.  X11: the text is drawn onto the window.
ArcadeRenderText(p, font, text, x, y, color, px, scr, w) ==
    IF text = -1 \/ font = "null" THEN [pixels |-> px, screen |-> scr]
    ELSE IF p = "win32"
    THEN LET drawn == Overlay(px, TextPixels(text, x, y, w), ColorRef(color))
         IN  [pixels |-> drawn, screen |-> drawn]
    ELSE [pixels |-> px, screen |-> Overlay(scr, TextPixels(text, x, y, w), color)]

\* arcade_render_text_centered(text, y, color): the width of the text is
\* measured and x = (state.width - text_width) / 2.0f.
ArcadeRenderTextCentered(p, font, text, y, color, px, scr, w) ==
    IF text = -1 \/ font = "null" THEN [pixels |-> px, screen |-> scr]
    ELSE LET text_width == text
             x == ((w.width - text_width) * SubPixel) \div 2
         IN  ArcadeRenderText(p, font, text, x, y, color, px, scr, w)

\* A blinking text that is drawn one tick in blink_interval.
ArcadeRenderTextCenteredBlinkShort(p, font, text, y, color, blink_interval, gfc, px, scr, w) ==
    IF text = -1 THEN [pixels |-> px, screen |-> scr, drew |-> FALSE]
    ELSE IF gfc % (2 * blink_interval) < 1
    THEN [drew |-> TRUE] @@ ArcadeRenderTextCentered(p, font, text, y, color, px, scr, w)
    ELSE [pixels |-> px, screen |-> scr, drew |-> FALSE]

\* arcade_render_text_centered_blink(text, y, color, blink_interval) with
\* global_frame_counter = gfc (blink_interval >= 1); drew: the centered
\* call was made.
ArcadeRenderTextCenteredBlink(p, font, text, y, color, blink_interval, gfc, px, scr, w) ==
    IF text = -1 THEN [pixels |-> px, screen |-> scr, drew |-> FALSE]
    ELSE IF gfc % (2 * blink_interval) < blink_interval
    THEN [drew |-> TRUE] @@ ArcadeRenderTextCentered(p, font, text, y, color, px, scr, w)
    ELSE [pixels |-> px, screen |-> scr, drew |-> FALSE]

(***************************************************************************)
(* arcade_flip_image and arcade_rotate_image.  An image is its width, its  *)
(* height and its pixels row by row (data[y * width + x + 1] is the pixel  *)
(* (x, y): the four bytes the loops copy together).                        *)
(***************************************************************************)
\* A vertical flip that reads one row further.
FlipSourceShifted(width, height, flip_type, x, y) ==
    IF flip_type = 1
    THEN [src_x |-> x, src_y |-> (height - y) % height]
    ELSE [src_x |-> width - 1 - x, src_y |-> y]

\* The source pixel that arcade_flip_image copies to the pixel (x, y) of
\* the flipped image.
FlipSource(width, height, flip_type, x, y) ==
    IF flip_type = 1
    THEN [src_x |-> x, src_y |-> height - 1 - y]
    ELSE [src_x |-> width - 1 - x, src_y |-> y]

\* The image arcade_flip_image writes for the image img.
FlipImage(img, flip_type) ==
    [width |-> img.width,
     height |-> img.height,
     data |-> [i \in 1..(img.width * img.height) |->
                  LET s == FlipSource(img.width, img.height, flip_type,
                                      (i - 1) % img.width, (i - 1) \div img.width)
                  IN  img.data[s.src_y * img.width + s.src_x + 1]]]

\* A rotation by 180 that reads one column further.
RotateSourceShifted(width, height, degrees, x, y) ==
    LET new_width == IF degrees = 90 \/ degrees = 270 THEN height ELSE width
        new_height == IF degrees = 90 \/ degrees = 270 THEN width ELSE height
    IN  IF degrees = 90 THEN [src_x |-> y, src_y |-> new_width - 1 - x]
        ELSE IF degrees = 180 THEN [src_x |-> (x + 1) % width, src_y |-> height - 1 - y]
        ELSE IF degrees = 270 THEN [src_x |-> new_height - 1 - y, src_y |-> x]
        ELSE [src_x |-> x, src_y |-> y]

\* The source pixel that arcade_rotate_image copies to the pixel (x, y) of
\* the rotated image, for a source of width x height pixels.
RotateSource(width, height, degrees, x, y) ==
    LET new_width == IF degrees = 90 \/ degrees = 270 THEN height ELSE width
        new_height == IF degrees = 90 \/ degrees = 270 THEN width ELSE height
    IN  IF degrees = 90 THEN [src_x |-> y, src_y |-> new_width - 1 - x]
        ELSE IF degrees = 180 THEN [src_x |-> width - 1 - x, src_y |-> height - 1 - y]
        ELSE IF degrees = 270 THEN [src_x |-> new_height - 1 - y, src_y |-> x]
        ELSE [src_x |-> x, src_y |-> y]

\* The image arcade_rotate_image writes for the image img.
RotateImage(img, degrees) ==
    LET new_width == IF degrees = 90 \/ degrees = 270 THEN img.height ELSE img.width
        new_height == IF degrees = 90 \/ degrees = 270 THEN img.width ELSE img.height
    IN  [width |-> new_width,
         height |-> new_height,
         data |-> [i \in 1..(new_width * new_height) |->
                      LET s == RotateSource(img.width, img.height, degrees,
                                            (i - 1) % new_width, (i - 1) \div new_width)
                      IN  img.data[s.src_y * img.width + s.src_x + 1]]]

(***************************************************************************)
(* OS events: a key going down, a key going up, the window being closed    *)
(* (ClientMessage WM_DELETE_WINDOW on X11, WM_QUIT on Windows).            *)
(***************************************************************************)
Events == [type : {"KeyPress", "KeyRelease"}, sym : Keys]
              \cup {[type |-> "Close", sym |-> 0]}

(***************************************************************************)
(* arcade_update: the event loop.  Events are taken from the queue oldest  *)
(* first.  A close event ends the call at once: the events behind it stay  *)
(* in the queue.  The record returned holds the key table, what is left    *)
(* of the queue, whether a close event was met, and (for the properties)   *)
(* `downs`, the slots that got a key-down event, and `fresh`, the slots    *)
(* that got a key-down event while the table had them up.                  *)
(***************************************************************************)
RECURSIVE PumpEvents(_, _, _, _, _)
PumpEvents(p, q, ks, downs, fresh) ==
    IF q = <<>>
    THEN [ks |-> ks, rest |-> <<>>, closed |-> FALSE, downs |-> downs, fresh |-> fresh]
    ELSE LET e == Head(q)
             s == KeySlot(p, e.sym)
         IN  CASE e.type = "Close" ->
                    [ks |-> ks, rest |-> Tail(q), closed |-> TRUE,
                     downs |-> downs, fresh |-> fresh]
               [] e.type = "KeyPress" ->
                    PumpEvents(p, Tail(q), [ks EXCEPT ![s] = 1], downs \cup {s},
                               IF ks[s] = 0 THEN fresh \cup {s} ELSE fresh)
               [] OTHER ->
                    PumpEvents(p, Tail(q), [ks EXCEPT ![s] = 0], downs, fresh)

\* A variant of arcade_update that goes on after a close event: it clears the
\* running flag but drains the rest of the queue and returns 1.
ArcadeUpdateGoesOn(p, q, ks, run, gfc) ==
    LET NoClose == SelectSeq(q, LAMBDA e : e.type # "Close")
        r == PumpEvents(p, NoClose, ks, {}, {})
    IN  [ks |-> r.ks, rest |-> <<>>, running |-> IF NoClose = q THEN run ELSE 0,
         gfc |-> gfc + 1, ret |-> 1, downs |-> r.downs, fresh |-> r.fresh]

\* arcade_update as a function of the state it reads: the new key table, queue,
\* running flag and frame counter, and the value returned.
ArcadeUpdate(p, q, ks, run, gfc) ==
    LET r == PumpEvents(p, q, ks, {}, {})
    IN  IF r.closed
        THEN [ks |-> r.ks, rest |-> r.rest, running |-> 0, gfc |-> gfc, ret |-> 0,
              downs |-> r.downs, fresh |-> r.fresh]
        ELSE [ks |-> r.ks, rest |-> r.rest, running |-> run, gfc |-> gfc + 1, ret |-> 1,
              downs |-> r.downs, fresh |-> r.fresh]

\* A variant of arcade_running that ignores the flag.
ArcadeRunningIgnoresFlag(run) == 1

\* arcade_running
ArcadeRunning(run) == run

\* arcade_set_running
ArcadeSetRunning(value) == value

\* arcade_key_pressed: 2 when the key's slot is down, else 0.
ArcadeKeyPressed(p, ks, key_val) ==
    IF ks[KeySlot(p, key_val)] # 0 THEN 2 ELSE 0

\* A variant of arcade_key_pressed_once that does not store the current state.
ArcadeKeyPressedOnceKeepsLast(p, ks, lks, key_val) ==
    LET key == KeySlot(p, key_val)
    IN  [ret |-> IF ks[key] = 1 /\ lks[key] = 0 THEN 2 ELSE 0, lks |-> lks]

\* A variant of arcade_key_pressed_once that copies the whole table.
ArcadeKeyPressedOnceCopiesAll(p, ks, lks, key_val) ==
    LET key == KeySlot(p, key_val)
    IN  [ret |-> IF ks[key] = 1 /\ lks[key] = 0 THEN 2 ELSE 0, lks |-> ks]

\* arcade_key_pressed_once: the value returned and the new last_key_states.
ArcadeKeyPressedOnce(p, ks, lks, key_val) ==
    LET key == KeySlot(p, key_val)
        current == ks[key]
        last == lks[key]
    IN  [ret |-> IF current = 1 /\ last = 0 THEN 2 ELSE 0,
         lks |-> [lks EXCEPT ![key] = current]]

\* A variant of arcade_clear_keys that clears last_key_states only.
ArcadeClearKeysLastOnly(ks, lks) == [ks |-> ks, lks |-> AllUp]

\* arcade_clear_keys: both tables after the two memsets.
ArcadeClearKeys(ks, lks) ==
    [ks |-> [s \in DOMAIN ks |-> 0], lks |-> [s \in DOMAIN lks |-> 0]]

(***************************************************************************)
(* History variables.  They record what the properties talk about and are  *)
(* never read by the model of the code:                                    *)
(*   updates   calls of arcade_update so far                               *)
(*   rendered  the tick of the last render, slept: of the last sleep       *)
(*   stopTick  the tick in which the body called arcade_set_running(0),    *)
(*             0 when it has not; stopUpdates: `updates` at that call      *)
(*   closed    arcade_update has met a close event                         *)
(*   nq        arcade_key_pressed_once calls in this tick                  *)
(*   queried   the keys arcade_key_pressed_once was called for in this     *)
(*             tick                                                        *)
(*   run       per key, consecutive queries that saw the key down          *)
(*   twos      per key, how many of them returned 2                        *)
(*   evRun     per key, queries that saw the current press down, a press   *)
(*             starting at a key-down event that finds the key up          *)
(*   evTwos    per key, how many of them returned 2                        *)
(*   downSinceClear  keys with a key-down event pumped since the last      *)
(*             arcade_clear_keys (or since the start)                      *)
(*   heldAtClear     keys that were down when arcade_clear_keys was called *)
(*   clearTick the tick of the last arcade_clear_keys call, 0 when none    *)
(*   downs     keys with a key-down event pumped by the last arcade_update *)
(* run, twos, evRun and evTwos are kept by the once-per-tick specification *)
(* only (track = TRUE).                                                    *)
(***************************************************************************)
HistInit ==
    [updates |-> 0, rendered |-> 0, slept |-> 0, stopTick |-> 0, stopUpdates |-> 0,
     closed |-> FALSE, nq |-> 0, queried |-> {},
     run |-> [k \in Keys |-> 0], twos |-> [k \in Keys |-> 0],
     evRun |-> [k \in Keys |-> 0], evTwos |-> [k \in Keys |-> 0],
     downSinceClear |-> {}, heldAtClear |-> {}, clearTick |-> 0, downs |-> {}]

\* `call`: the function called last, its key argument, the value it returned and,
\* for arcade_key_pressed_once, whether the call before it was
\* arcade_key_pressed_once for the same key and returned 2.
NoCall == [fn |-> "none", key |-> 0, ret |-> 0, after2 |-> FALSE]

\* The resource state of a process that has not called arcade_init:
\* `state` is zero-initialised.
NoResources ==
    [handles |-> [r \in Resources |-> "null"], held |-> {}, rel |-> <<>>, misuse |-> {},
     win |-> [width |-> 0, height |-> 0, bg_color |-> 0], running |-> 0]

\* The sprites of a program that has created none.
NoSprite ==
    [x |-> 0, y |-> 0, width |-> 0, height |-> 0, vx |-> 0, vy |-> 0,
     pixels |-> 0, image_width |-> 0, image_height |-> 0, active |-> 0]

NoSpriteCall ==
    [fn |-> "none", made |-> {}, file |-> "ok", files |-> <<>>, array_ok |-> TRUE,
     base |-> 0, active0 |-> FALSE, before |-> 0, start |-> 0, calls |-> 0]

\* A SpriteGroup before arcade_init_group: `sprites` is the pointer to the
\* arrays `sprites` and `types`, slots their contents.
NoGroup == [sprites |-> 0, types |-> 0, slots |-> <<>>, count |-> 0, capacity |-> 0]

\* No image file.
NoImage == [width |-> 0, height |-> 0, data |-> <<>>]

\* No game: the program is not one of the games.
NoGame == [name |-> "none"]

\* No blinking text.
NoBlink == [interval |-> 0, drawn |-> <<>>]

\* `gcall`: the function called last, its arguments a and b, the value it
\* returned, a value read before the call, the calls made so far.
NoSceneCall ==
    [fn |-> "none", a |-> "NULL", b |-> "NULL", ret |-> 0, before |-> 0, calls |-> 0]

SceneInit ==
    /\ paddle = NoColorSprite
    /\ ball = NoColorSprite
    /\ group = NoGroup
    /\ last_time = 0
    /\ screen = <<>>
    /\ blink = NoBlink
    /\ image = NoImage
    /\ game = NoGame
    /\ gcall = NoSceneCall

SpriteInit ==
    /\ player = EmptyAnim
    /\ pipe = NoSprite
    /\ heap = <<>>
    /\ fault = FALSE
    /\ sc = NoSpriteCall

\* The program before it calls arcade_init.
LifeInit ==
    /\ platform \in Platforms
    /\ queue = <<>>
    /\ key_states = AllUp
    /\ last_key_states = AllUp
    /\ running = 0
    /\ global_frame_counter = 0
    /\ pc = "start"
    /\ call = NoCall
    /\ hist = HistInit
    /\ handles = NoResources.handles
    /\ win = NoResources.win
    /\ pixels = <<>>
    /\ held = {}
    /\ initCall = [ret |-> -1, acq |-> <<>>, rel |-> <<>>]
    /\ misuse = {}
    /\ SpriteInit
    /\ SceneInit

\* The program at its main loop, arcade_init having succeeded (for a window
\* of one pixel).
LoopInit ==
    /\ platform \in Platforms
    /\ queue = <<>>
    /\ key_states = AllUp
    /\ last_key_states = AllUp
    /\ global_frame_counter = 0
    /\ pc = "cond"
    /\ call = NoCall
    /\ hist = HistInit
    /\ LET r == ArcadeInit(platform, 1, 1, 0, "none", NoResources)
       IN  /\ running = r.running
           /\ handles = r.handles
           /\ win = r.win
           /\ pixels = r.pixels
           /\ held = r.held
           /\ initCall = [ret |-> r.ret, acq |-> r.acq, rel |-> r.rel]
           /\ misuse = r.misuse
    /\ SpriteInit
    /\ SceneInit

(***************************************************************************)
(* The environment: the window system queues an event.  An event that      *)
(* arrives while the body runs is read by the next pump only, so arrivals  *)
(* are modelled at the loop condition.                                     *)
(***************************************************************************)
\* The ticks of a run that is followed: MaxHold when the body queries each key
\* once per tick (track), MaxTicks for any body.
TickBound(track) == IF track THEN MaxHold ELSE MaxTicks

OsEvent(e, track) ==
    /\ pc = "cond"
    /\ Len(queue) < MaxQueue
    /\ global_frame_counter < TickBound(track)
    /\ queue' = Append(queue, e)
    /\ UNCHANGED <<platform, key_states, last_key_states, running,
                   global_frame_counter, pc, call, hist>>
    /\ UNCHANGED lifeVars
    /\ UNCHANGED spriteVars
    /\ UNCHANGED sceneVars

(***************************************************************************)
(* The loop condition `arcade_running() && arcade_update()`.               *)
(***************************************************************************)
\* arcade_running() is 0: the loop ends, arcade_update is not called.
LoopExit ==
    /\ pc = "cond"
    /\ ArcadeRunning(running) = 0
    /\ pc' = "exited"
    /\ call' = [NoCall EXCEPT !.fn = "arcade_running"]
    /\ UNCHANGED <<platform, queue, key_states, last_key_states, running,
                   global_frame_counter, hist>>
    /\ UNCHANGED lifeVars
    /\ UNCHANGED spriteVars
    /\ UNCHANGED sceneVars

\* arcade_running() is non-zero: arcade_update is called; the body runs when it
\* returns 1 and the loop ends when it returns 0.
LoopUpdate(track) ==
    /\ pc = "cond"
    /\ ArcadeRunning(running) # 0
    /\ global_frame_counter < TickBound(track)
    /\ LET u == ArcadeUpdate(platform, queue, key_states, running, global_frame_counter)
           downKeys == {k \in Keys : KeySlot(platform, k) \in u.downs}
           freshKeys == {k \in Keys : track /\ KeySlot(platform, k) \in u.fresh}
       IN  /\ key_states' = u.ks
           /\ queue' = u.rest
           /\ running' = u.running
           /\ global_frame_counter' = u.gfc
           /\ pc' = IF u.ret = 1 THEN "body" ELSE "exited"
           /\ call' = [NoCall EXCEPT !.fn = "arcade_update", !.ret = u.ret]
           /\ hist' = [hist EXCEPT
                         !.updates = @ + 1,
                         !.closed = (u.ret = 0),
                         !.nq = 0,
                         !.queried = {},
                         !.evRun = [k \in Keys |-> IF k \in freshKeys THEN 0 ELSE @[k]],
                         !.evTwos = [k \in Keys |-> IF k \in freshKeys THEN 0 ELSE @[k]],
                         !.downSinceClear = @ \cup downKeys,
                         !.downs = downKeys]
    /\ UNCHANGED <<platform, last_key_states>>
    /\ UNCHANGED lifeVars
    /\ UNCHANGED spriteVars
    /\ UNCHANGED sceneVars

(***************************************************************************)
(* The body of a tick: any calls of the input functions, then render, then *)
(* the pacing sleep.                                                       *)
(***************************************************************************)
\* The body calls arcade_key_pressed_once(k).
QueryOnce(k, track) ==
    /\ pc = "body"
    /\ hist.nq < MaxQueries
    /\ LET r == ArcadeKeyPressedOnce(platform, key_states, last_key_states, k)
           down == key_states[KeySlot(platform, k)] = 1
           two == IF r.ret = 2 THEN 1 ELSE 0
       IN  /\ last_key_states' = r.lks
           /\ call' = [fn |-> "arcade_key_pressed_once", key |-> k, ret |-> r.ret,
                       after2 |-> (call.fn = "arcade_key_pressed_once"
                                     /\ call.key = k /\ call.ret = 2)]
           /\ hist' = [hist EXCEPT
                         !.nq = @ + 1,
                         !.queried = IF track THEN @ \cup {k} ELSE @,
                         !.run[k] = IF ~track THEN @ ELSE IF down THEN @ + 1 ELSE 0,
                         !.twos[k] = IF ~track THEN @ ELSE IF down THEN @ + two ELSE 0,
                         !.evRun[k] = IF track /\ down THEN @ + 1 ELSE @,
                         !.evTwos[k] = IF track /\ down THEN @ + two ELSE @]
    /\ UNCHANGED <<platform, queue, key_states, running, global_frame_counter, pc>>
    /\ UNCHANGED lifeVars
    /\ UNCHANGED spriteVars
    /\ UNCHANGED sceneVars

\* The body calls arcade_key_pressed(k).
QueryHeld(k) ==
    /\ pc = "body"
    /\ call' = [fn |-> "arcade_key_pressed", key |-> k,
                ret |-> ArcadeKeyPressed(platform, key_states, k), after2 |-> FALSE]
    /\ UNCHANGED <<platform, queue, key_states, last_key_states, running,
                   global_frame_counter, pc, hist>>
    /\ UNCHANGED lifeVars
    /\ UNCHANGED spriteVars
    /\ UNCHANGED sceneVars

\* The body calls arcade_clear_keys().
ClearKeys ==
    /\ pc = "body"
    /\ LET c == ArcadeClearKeys(key_states, last_key_states)
       IN  /\ key_states' = c.ks
           /\ last_key_states' = c.lks
    /\ call' = [NoCall EXCEPT !.fn = "arcade_clear_keys"]
    /\ hist' = [hist EXCEPT
                  !.downSinceClear = {},
                  !.heldAtClear = {k \in Keys : key_states[KeySlot(platform, k)] = 1},
                  !.clearTick = global_frame_counter]
    /\ UNCHANGED <<platform, queue, running, global_frame_counter, pc>>
    /\ UNCHANGED lifeVars
    /\ UNCHANGED spriteVars
    /\ UNCHANGED sceneVars

\* The body calls arcade_set_running(0), as the games do on ESC.
SetRunning ==
    /\ pc = "body"
    /\ running # 0
    /\ running' = ArcadeSetRunning(0)
    /\ call' = [NoCall EXCEPT !.fn = "arcade_set_running"]
    /\ hist' = [hist EXCEPT !.stopTick = global_frame_counter,
                            !.stopUpdates = hist.updates]
    /\ UNCHANGED <<platform, queue, key_states, last_key_states,
                   global_frame_counter, pc>>
    /\ UNCHANGED lifeVars
    /\ UNCHANGED spriteVars
    /\ UNCHANGED sceneVars

\* The body renders the scene.
Render ==
    /\ pc = "body"
    /\ pc' = "rendered"
    /\ hist' = [hist EXCEPT !.rendered = global_frame_counter]
    /\ UNCHANGED <<platform, queue, key_states, last_key_states, running,
                   global_frame_counter, call>>
    /\ UNCHANGED lifeVars
    /\ UNCHANGED spriteVars
    /\ UNCHANGED sceneVars

\* The body ends with arcade_sleep(16); the loop condition is evaluated next.
Sleep ==
    /\ pc = "rendered"
    /\ pc' = "cond"
    /\ hist' = [hist EXCEPT !.slept = global_frame_counter]
    /\ UNCHANGED <<platform, queue, key_states, last_key_states, running,
                   global_frame_counter, call>>
    /\ UNCHANGED lifeVars
    /\ UNCHANGED spriteVars
    /\ UNCHANGED sceneVars

(***************************************************************************)
(* The program around the loop: arcade_init before it, arcade_quit after   *)
(* it or after a failed arcade_init.                                       *)
(***************************************************************************)
Widths == {1, 2}
Heights == {1, 2}
Colors == {0, 255}

CallInit(w, h, bg, failed) ==
    /\ pc = "start"
    /\ LET r == ArcadeInit(platform, w, h, bg, failed,
                           [NoResources EXCEPT !.handles = handles, !.held = held,
                                               !.misuse = misuse, !.win = win,
                                               !.running = running])
       IN  /\ handles' = r.handles
           /\ held' = r.held
           /\ misuse' = r.misuse
           /\ win' = r.win
           /\ running' = r.running
           /\ pixels' = r.pixels
           /\ initCall' = [ret |-> r.ret, acq |-> r.acq, rel |-> r.rel]
           /\ call' = [NoCall EXCEPT !.fn = "arcade_init", !.ret = r.ret]
           /\ pc' = IF r.ret = 0 THEN "cond" ELSE "failed"
    /\ UNCHANGED <<platform, queue, key_states, last_key_states,
                   global_frame_counter, hist>>
    /\ UNCHANGED spriteVars
    /\ UNCHANGED sceneVars

\* arcade_quit, called after the loop, or after a failed arcade_init by the
\* programs that clean up on that path (part_000: `if (arcade_init(...)) goto
\* cleanup;`), or a second time.
CallQuit ==
    /\ pc \in {"exited", "failed", "quit"}
    /\ LET r == ArcadeQuit(platform, [NoResources EXCEPT !.handles = handles,
                                                         !.held = held,
                                                         !.misuse = misuse])
       IN  /\ handles' = r.handles
           /\ held' = r.held
           /\ misuse' = r.misuse
    /\ pixels' = IF handles[IF platform = "win32" THEN "hbitmap" ELSE "image"] # "null"
                 THEN <<>> ELSE pixels
    /\ call' = [NoCall EXCEPT !.fn = "arcade_quit"]
    /\ pc' = "quit"
    /\ UNCHANGED <<platform, queue, key_states, last_key_states, running,
                   global_frame_counter, hist, win, initCall>>
    /\ UNCHANGED spriteVars
    /\ UNCHANGED sceneVars

\* The window is closed by the user.
CloseEvent == OsEvent([type |-> "Close", sym |-> 0], FALSE)

LifeNext ==
    \/ \E w \in Widths, h \in Heights, bg \in Colors :
          \E failed \in Checked(platform) \cup {"none"} : CallInit(w, h, bg, failed)
    \/ CallQuit
    \/ CloseEvent
    \/ LoopExit
    \/ LoopUpdate(FALSE)
    \/ SetRunning
    \/ Render
    \/ Sleep

(***************************************************************************)
(* A program that uses the sprites, as the games do: it creates an image   *)
(* sprite and an animation, moves the animation, writes the fields of its  *)
(* frames, and frees them.                                                 *)
(***************************************************************************)
StartXs == {0, SubPixel}
StartYs == {0, SubPixel}
Speeds == {-1}
Sizes == {SubPixel, SubPixel + 1}
Gravities == {0, 1}
JumpVys == {-(SubPixel + 1)}
Intervals == 1..MaxInterval
FileLists == UNION {[1..n -> Files] : n \in 1..MaxFrames}

\* The index of the first file of a list that does not load (0: all load).
FirstFailure(filenames) ==
    IF \A i \in DOMAIN filenames : filenames[i] = "ok" THEN 0
    ELSE CHOOSE i \in DOMAIN filenames :
            /\ filenames[i] # "ok"
            /\ \A j \in 1..(i - 1) : filenames[j] = "ok"

\* pipe = arcade_create_image_sprite(x, y, w, h, filename)
CreateImage(x, y, w, filename) ==
    /\ ~fault
    /\ "pipe" \notin sc.made
    /\ LET r == ArcadeCreateImageSprite(x, y, w, w, filename, heap)
       IN  /\ pipe' = r.sprite
           /\ heap' = r.heap
    /\ sc' = [sc EXCEPT !.fn = "arcade_create_image_sprite", !.made = @ \cup {"pipe"},
                        !.file = filename, !.base = Len(heap)]
    /\ UNCHANGED <<player, fault>>
    /\ UNCHANGED <<loopVars, lifeVars, sceneVars>>

\* pipe.vx = speed, by a caller that has checked pipe.pixels
SetSpeed(speed) ==
    /\ ~fault
    /\ pipe.pixels # 0
    /\ pipe' = [pipe EXCEPT !.vx = speed]
    /\ sc' = [sc EXCEPT !.fn = "caller"]
    /\ UNCHANGED <<player, heap, fault>>
    /\ UNCHANGED <<loopVars, lifeVars, sceneVars>>

\* arcade_move_image_sprite(&pipe, gravity, window_height), the sprite not
\* having left the window to the left
MoveImage(gravity) ==
    /\ ~fault
    /\ "pipe" \in sc.made
    /\ pipe.x + pipe.width >= 0
    /\ pipe' = ArcadeMoveImageSprite(pipe, gravity, MaxHeight)
    /\ sc' = [sc EXCEPT !.fn = "arcade_move_image_sprite"]
    /\ UNCHANGED <<player, heap, fault>>
    /\ UNCHANGED <<loopVars, lifeVars, sceneVars>>

\* arcade_free_image_sprite(&pipe)
FreeImage ==
    /\ ~fault
    /\ "pipe" \in sc.made
    /\ LET r == ArcadeFreeImageSprite(pipe, heap)
       IN  /\ pipe' = r.sprite
           /\ heap' = r.heap
    /\ sc' = [sc EXCEPT !.fn = "arcade_free_image_sprite", !.base = Len(heap)]
    /\ UNCHANGED <<player, fault>>
    /\ UNCHANGED <<loopVars, lifeVars, sceneVars>>

\* player = arcade_create_animated_sprite(...); the caller's variable is
\* assigned when the call returns.
CreateAnimated ==
    /\ ~fault
    /\ "player" \notin sc.made
    /\ \E y \in StartYs, w \in Sizes, filenames \in FileLists :
       \E frame_interval \in Intervals, array_ok \in BOOLEAN :
          LET r == ArcadeCreateAnimatedSprite(0, y, w, w, filenames, frame_interval,
                                              array_ok, heap)
          IN  /\ player' = IF r.fault THEN player ELSE r.anim
              /\ heap' = r.heap
              /\ fault' = r.fault
              /\ sc' = [sc EXCEPT !.fn = "arcade_create_animated_sprite",
                                  !.made = @ \cup {"player"},
                                  !.files = filenames, !.array_ok = array_ok,
                                  !.base = Len(heap), !.calls = 0]
    /\ UNCHANGED pipe
    /\ UNCHANGED <<loopVars, lifeVars, sceneVars>>

\* arcade_free_animated_sprite(&player)
FreeAnimated ==
    /\ ~fault
    /\ "player" \in sc.made
    /\ LET r == ArcadeFreeAnimatedSprite(player, heap)
       IN  /\ player' = r.anim
           /\ heap' = r.heap
    /\ sc' = [sc EXCEPT !.fn = "arcade_free_animated_sprite", !.base = Len(heap),
                        !.calls = 0]
    /\ UNCHANGED <<pipe, fault>>
    /\ UNCHANGED <<loopVars, lifeVars, sceneVars>>

\* arcade_move_animated_sprite(&player, gravity, window_height).  With
\* player->frames null the test of frames[0].active dereferences a null
\* pointer.  sc.start and sc.calls: the frame that was current when
\* frame_counter was 0 and the calls made since on the active animation.
MoveAnimated(gravity) ==
    /\ ~fault
    /\ "player" \in sc.made
    /\ IF player.frames = 0
       THEN /\ fault' = TRUE
            /\ UNCHANGED player
            /\ sc' = [sc EXCEPT !.fn = "arcade_move_animated_sprite", !.calls = 0]
       ELSE /\ fault' = fault
            /\ player' = ArcadeMoveAnimatedSprite(player, gravity, MaxHeight)
            /\ LET active0 == player.elems[1].active # 0
                   begin == sc.calls = 0
                              \/ sc.calls = player.frame_interval * player.frame_count
               IN  sc' = [sc EXCEPT
                            !.fn = "arcade_move_animated_sprite",
                            !.active0 = active0,
                            !.before = player.current_frame,
                            !.start = IF active0 /\ begin THEN player.current_frame ELSE @,
                            !.calls = IF ~active0 THEN 0
                                      ELSE IF ~begin THEN @ + 1
                                      ELSE IF player.frame_counter = 0 THEN 1 ELSE 0]
    /\ UNCHANGED <<pipe, heap>>
    /\ UNCHANGED <<loopVars, lifeVars, sceneVars>>

\* player.frames[player.current_frame].vy = jump_vy
Jump(jump_vy) ==
    /\ ~fault
    /\ player.frames # 0
    /\ player' = [player EXCEPT !.elems[player.current_frame + 1].vy = jump_vy]
    /\ sc' = [sc EXCEPT !.fn = "caller"]
    /\ UNCHANGED <<pipe, heap, fault>>
    /\ UNCHANGED <<loopVars, lifeVars, sceneVars>>

\* player.frames[0].active = 0
Deactivate ==
    /\ ~fault
    /\ player.frames # 0
    /\ player' = [player EXCEPT !.elems[1].active = 0]
    /\ sc' = [sc EXCEPT !.fn = "caller", !.calls = 0]
    /\ UNCHANGED <<pipe, heap, fault>>
    /\ UNCHANGED <<loopVars, lifeVars, sceneVars>>

\* The restart of a game: every frame is put back at the start position
\* with no vertical velocity, the first frame is activated, the animation
\* is rewound.
Restart(y) ==
    /\ ~fault
    /\ player.frames # 0
    /\ player' = [player EXCEPT
                  !.elems = [i \in 1..player.frame_count |->
                               [player.elems[i] EXCEPT
                                  !.x = 0, !.y = y, !.vy = 0,
                                  !.active = IF i = 1 THEN 1 ELSE @]],
                  !.current_frame = 0,
                  !.frame_counter = 0]
    /\ sc' = [sc EXCEPT !.fn = "caller", !.calls = 0]
    /\ UNCHANGED <<pipe, heap, fault>>
    /\ UNCHANGED <<loopVars, lifeVars, sceneVars>>

ImageNext ==
    \/ \E x \in StartXs, y \in StartYs, w \in Sizes, filename \in Files :
          CreateImage(x, y, w, filename)
    \/ \E speed \in Speeds : SetSpeed(speed)
    \/ \E gravity \in Gravities : MoveImage(gravity)
    \/ FreeImage

SpriteNext ==
    \/ CreateAnimated
    \/ FreeAnimated
    \/ \E gravity \in Gravities : MoveAnimated(gravity)
    \/ \E jump_vy \in JumpVys : Jump(jump_vy)
    \/ Deactivate
    \/ \E y \in StartYs : Restart(y)

\* The loop and the window of a program at its main loop, arcade_init
\* having succeeded for a window w wide and h high of background bg.
WindowInit(w, h, bg) ==
    /\ platform \in Platforms
    /\ queue = <<>>
    /\ key_states = AllUp
    /\ last_key_states = AllUp
    /\ global_frame_counter = 0
    /\ pc = "cond"
    /\ call = NoCall
    /\ hist = HistInit
    /\ LET r == ArcadeInit(platform, w, h, bg, "none", NoResources)
       IN  /\ running = r.running
           /\ handles = r.handles
           /\ win = r.win
           /\ pixels = r.pixels
           /\ held = r.held
           /\ initCall = [ret |-> r.ret, acq |-> r.acq, rel |-> r.rel]
           /\ misuse = r.misuse

(***************************************************************************)
(* A program that renders through a sprite group, as the games do: it      *)
(* makes its sprites and the group before the loop and, in the loop,       *)
(* empties the group, adds sprites to it and renders it.                   *)
(***************************************************************************)
MaxCapacity == 2   \* capacity of the sprite group
WindowWidth == 2   \* window width, in pixels

Capacities == 0..MaxCapacity

\* The program at its main loop, arcade_init having succeeded for a black
\* window WindowWidth wide and MaxHeight high, the sprites made: a colour
\* sprite (the ball, partly outside the window) and an animation of two
\* frames.
StageInit ==
    /\ WindowInit(WindowWidth, MaxHeight, 0)
    /\ LET a == ArcadeCreateAnimatedSprite(0, 0, ToFloat(2), ToFloat(2),
                                           <<"ok", "ok">>, 1, TRUE, <<>>)
       IN  /\ player = a.anim
           /\ heap = a.heap
           /\ fault = a.fault
    /\ pipe = NoSprite
    /\ sc = [NoSpriteCall EXCEPT !.made = {"player"}]
    /\ paddle = NoColorSprite
    /\ ball = [x |-> ToFloat(1), y |-> ToFloat(MaxHeight - 1), width |-> ToFloat(2),
               height |-> ToFloat(2), vy |-> 0, vx |-> 0, color |-> 16777215, active |-> 1]
    /\ group = NoGroup
    /\ last_time = 0
    /\ screen = <<>>
    /\ blink = NoBlink
    /\ image = NoImage
    /\ game = NoGame
    /\ gcall = NoSceneCall

\* arcade_init_group(&group, capacity), once, before the loop
InitGroup(capacity, sprites_ok, types_ok) ==
    /\ ~fault
    /\ gcall.fn = "none"
    /\ LET r == ArcadeInitGroup(capacity, sprites_ok, types_ok, heap)
       IN  /\ group' = r.group
           /\ heap' = r.heap
    /\ gcall' = [fn |-> "arcade_init_group", before |-> group]
    /\ UNCHANGED <<paddle, ball, last_time, screen, blink, image, game>>
    /\ UNCHANGED <<player, pipe, fault, sc>>
    /\ UNCHANGED <<loopVars, lifeVars>>

\* group.count = 0
ResetCount ==
    /\ ~fault
    /\ gcall.fn # "none"
    /\ group' = [group EXCEPT !.count = 0]
    /\ gcall' = [fn |-> "caller", before |-> group]
    /\ UNCHANGED <<paddle, ball, last_time, screen, blink, image, game>>
    /\ UNCHANGED spriteVars
    /\ UNCHANGED <<loopVars, lifeVars>>

\* arcade_add_sprite_to_group(&group, (ArcadeAnySprite){.sprite = ball},
\* SPRITE_COLOR)
AddSprite ==
    /\ ~fault
    /\ gcall.fn # "none"
    /\ LET r == ArcadeAddSpriteToGroup(group, ball, SPRITE_COLOR)
       IN  /\ group' = r.group
           /\ fault' = r.fault
    /\ gcall' = [fn |-> "arcade_add_sprite_to_group", before |-> group,
                 sprite |-> ball, type |-> SPRITE_COLOR]
    /\ UNCHANGED <<paddle, ball, last_time, screen, blink, image, game>>
    /\ UNCHANGED <<player, pipe, heap, sc>>
    /\ UNCHANGED <<loopVars, lifeVars>>

\* arcade_add_animated_to_group(&group, &player), or with a null pointer
AddAnimated(p) ==
    /\ ~fault
    /\ gcall.fn # "none"
    /\ LET r == ArcadeAddAnimatedToGroup(group, p = "NULL", player)
       IN  /\ group' = r.group
           /\ fault' = r.fault
    /\ gcall' = [fn |-> "arcade_add_animated_to_group", before |-> group,
                 a |-> p, anim |-> player]
    /\ UNCHANGED <<paddle, ball, last_time, screen, blink, image, game>>
    /\ UNCHANGED <<player, pipe, heap, sc>>
    /\ UNCHANGED <<loopVars, lifeVars>>

\* arcade_render_group(&group).  gcall.again: the call before it was
\* arcade_render_group too.
RenderGroup ==
    /\ ~fault
    /\ gcall.fn # "none"
    /\ pixels' = ArcadeRenderGroup(group, pixels, win)
    /\ screen' = pixels'
    /\ gcall' = [fn |-> "arcade_render_group", before |-> pixels,
                 again |-> gcall.fn = "arcade_render_group"]
    /\ UNCHANGED <<paddle, ball, group, last_time, blink, image, game>>
    /\ UNCHANGED spriteVars
    /\ UNCHANGED loopVars
    /\ UNCHANGED <<handles, win, held, initCall, misuse>>

\* enemy->current_frame = (enemy->current_frame + 1) % 3, for the frames
\* the animation has
NextFrame ==
    /\ ~fault
    /\ player.frames # 0
    /\ player' = [player EXCEPT !.current_frame = (@ + 1) % player.frame_count]
    /\ sc' = [sc EXCEPT !.fn = "caller", !.calls = 0]
    /\ UNCHANGED <<pipe, heap, fault>>
    /\ UNCHANGED <<loopVars, lifeVars, sceneVars>>

\* ball.active = 0
Hide ==
    /\ ~fault
    /\ ball.active # 0
    /\ ball' = [ball EXCEPT !.active = 0]
    /\ UNCHANGED <<paddle, group, last_time, gcall, screen, blink, image, game>>
    /\ UNCHANGED spriteVars
    /\ UNCHANGED <<loopVars, lifeVars>>

GroupNext ==
    \/ \E capacity \in Capacities, sprites_ok \in BOOLEAN, types_ok \in BOOLEAN :
          InitGroup(capacity, sprites_ok, types_ok)
    \/ ResetCount
    \/ AddSprite
    \/ \E p \in {"NULL", "player"} : AddAnimated(p)
    \/ RenderGroup
    \/ NextFrame
    \/ Deactivate
    \/ Hide

(***************************************************************************)
(* A program that tests its sprites for collisions: two colour sprites     *)
(* (the ball is moved about the paddle), an image sprite that is moved     *)
(* about an animation of two frames.                                       *)
(***************************************************************************)
\* Where the moved sprite (one pixel wide and high) is put, the other one
\* having its corner at (SubPixel, SubPixel): touching its left edge, its
\* corner, overlapping it, on it, touching the right edge of one a pixel
\* wide, touching its bottom edge, apart from it.
Positions ==
    {<<0, SubPixel>>, <<0, 0>>, <<1, SubPixel>>, <<SubPixel, SubPixel>>,
     <<2 * SubPixel, SubPixel + 1>>, <<SubPixel, 2 * SubPixel>>,
     <<2 * SubPixel + 2, SubPixel>>}

ColorPointers == {"NULL", "paddle", "ball"}

\* "frame": &player.frames[player.current_frame]
ImagePointers == {"NULL", "pipe", "frame"}

AnimPointers == {"NULL", "player"}

ColorAt(p) == IF p = "paddle" THEN paddle ELSE IF p = "ball" THEN ball ELSE NoColorSprite

ImageAt(p) ==
    IF p = "pipe" THEN pipe
    ELSE IF p = "frame" THEN player.elems[player.current_frame + 1]
    ELSE NoSprite

\* The program at its main loop, the sprites made; the caller has written
\* the x of the second frame of the animation.
CollideInit ==
    /\ WindowInit(WindowWidth, MaxHeight, 0)
    /\ LET i == ArcadeCreateImageSprite(0, 0, ToFloat(1), ToFloat(1), "ok", <<>>)
           a == ArcadeCreateAnimatedSprite(ToFloat(1), ToFloat(1), ToFloat(1), ToFloat(1),
                                           <<"ok", "ok">>, 1, TRUE, i.heap)
       IN  /\ pipe = i.sprite
           /\ player = [a.anim EXCEPT !.elems[2].x = @ + 1]
           /\ heap = a.heap
           /\ fault = a.fault
    /\ sc = [NoSpriteCall EXCEPT !.made = {"pipe", "player"}]
    /\ paddle = [x |-> ToFloat(1), y |-> ToFloat(1), width |-> ToFloat(1) + 1,
                 height |-> ToFloat(1), vy |-> 0, vx |-> 0, color |-> 255, active |-> 1]
    /\ ball = [x |-> 0, y |-> 0, width |-> ToFloat(1), height |-> ToFloat(1),
               vy |-> 0, vx |-> 0, color |-> 16777215, active |-> 1]
    /\ group = NoGroup
    /\ last_time = 0
    /\ screen = <<>>
    /\ blink = NoBlink
    /\ image = NoImage
    /\ game = NoGame
    /\ gcall = NoSceneCall

\* ball.x = ...; ball.y = ...
PlaceBall(pos) ==
    /\ ~fault
    /\ ball' = [ball EXCEPT !.x = pos[1], !.y = pos[2]]
    /\ gcall' = [fn |-> "caller"]
    /\ UNCHANGED <<paddle, group, last_time, screen, blink, image, game>>
    /\ UNCHANGED spriteVars
    /\ UNCHANGED <<loopVars, lifeVars>>

\* pipe.x = ...; pipe.y = ...
PlacePipe(pos) ==
    /\ ~fault
    /\ pipe' = [pipe EXCEPT !.x = pos[1], !.y = pos[2]]
    /\ sc' = [sc EXCEPT !.fn = "caller"]
    /\ gcall' = [fn |-> "caller"]
    /\ UNCHANGED <<paddle, ball, group, last_time, screen, blink, image, game>>
    /\ UNCHANGED <<player, heap, fault>>
    /\ UNCHANGED <<loopVars, lifeVars>>

\* ball.active = v, pipe.active = v, player.frames[i].active = v
SetActive(p, v) ==
    /\ ~fault
    /\ ball' = IF p = "ball" THEN [ball EXCEPT !.active = v] ELSE ball
    /\ pipe' = IF p = "pipe" THEN [pipe EXCEPT !.active = v] ELSE pipe
    /\ player' = IF p = "frame0" THEN [player EXCEPT !.elems[1].active = v]
                 ELSE IF p = "frame1" THEN [player EXCEPT !.elems[2].active = v]
                 ELSE player
    /\ sc' = [sc EXCEPT !.fn = "caller", !.calls = 0]
    /\ gcall' = [fn |-> "caller"]
    /\ UNCHANGED <<paddle, group, last_time, screen, blink, image, game>>
    /\ UNCHANGED <<heap, fault>>
    /\ UNCHANGED <<loopVars, lifeVars>>

\* arcade_check_collision(pa, pb)
CheckCollision(pa, pb) ==
    /\ ~fault
    /\ gcall' = [fn |-> "arcade_check_collision",
                 a |-> [null |-> pa = "NULL", s |-> ColorAt(pa)],
                 b |-> [null |-> pb = "NULL", s |-> ColorAt(pb)],
                 ret |-> ArcadeCheckCollision(pa = "NULL", ColorAt(pa),
                                              pb = "NULL", ColorAt(pb))]
    /\ UNCHANGED <<paddle, ball, group, last_time, screen, blink, image, game>>
    /\ UNCHANGED spriteVars
    /\ UNCHANGED <<loopVars, lifeVars>>

\* arcade_check_image_collision(pa, pb)
CheckImageCollision(pa, pb) ==
    /\ ~fault
    /\ gcall' = [fn |-> "arcade_check_image_collision",
                 a |-> [null |-> pa = "NULL", s |-> ImageAt(pa)],
                 b |-> [null |-> pb = "NULL", s |-> ImageAt(pb)],
                 ret |-> ArcadeCheckImageCollision(pa = "NULL", ImageAt(pa),
                                                   pb = "NULL", ImageAt(pb))]
    /\ UNCHANGED <<paddle, ball, group, last_time, screen, blink, image, game>>
    /\ UNCHANGED spriteVars
    /\ UNCHANGED <<loopVars, lifeVars>>

\* arcade_check_animated_collision(pa, pb)
CheckAnimatedCollision(pa, pb) ==
    /\ ~fault
    /\ LET r == ArcadeCheckAnimatedCollision(pa = "NULL", player, pb = "NULL", ImageAt(pb))
       IN  /\ fault' = r.fault
           /\ gcall' = [fn |-> "arcade_check_animated_collision",
                        a |-> [null |-> pa = "NULL", s |-> player],
                        b |-> [null |-> pb = "NULL", s |-> ImageAt(pb)],
                        ret |-> r.ret]
    /\ UNCHANGED <<paddle, ball, group, last_time, screen, blink, image, game>>
    /\ UNCHANGED <<player, pipe, heap, sc>>
    /\ UNCHANGED <<loopVars, lifeVars>>

CollideNext ==
    \/ \E pos \in Positions : PlaceBall(pos)
    \/ \E pos \in Positions : PlacePipe(pos)
    \/ \E p \in {"ball", "pipe", "frame0", "frame1"}, v \in {0, 1} : SetActive(p, v)
    \/ NextFrame
    \/ \E pa \in ColorPointers, pb \in ColorPointers : CheckCollision(pa, pb)
    \/ \E pa \in ImagePointers, pb \in ImagePointers : CheckImageCollision(pa, pb)
    \/ \E pa \in AnimPointers, pb \in ImagePointers : CheckAnimatedCollision(pa, pb)

(***************************************************************************)
(* A program that moves a colour sprite and an image sprite in a window    *)
(* MaxHeight high.  Each sprite is a pixel high or taller than the window; *)
(* it starts at the top with an upward velocity, the ball going right and  *)
(* the image sprite, spawned at the right edge, going left.                *)
(***************************************************************************)
SpriteHeights == {ToFloat(1), ToFloat(MaxHeight + 1)}

MoveInit ==
    /\ WindowInit(WindowWidth, MaxHeight, 0)
    /\ \E h \in SpriteHeights :
          LET i == ArcadeCreateImageSprite(ToFloat(WindowWidth), 0, ToFloat(1), h, "ok", <<>>)
          IN  /\ pipe = [i.sprite EXCEPT !.vx = -1, !.vy = -(SubPixel + 1)]
              /\ heap = i.heap
    /\ player = EmptyAnim
    /\ fault = FALSE
    /\ sc = [NoSpriteCall EXCEPT !.made = {"pipe"}]
    /\ paddle = NoColorSprite
    /\ \E h \in SpriteHeights :
          ball = [x |-> 0, y |-> 0, width |-> ToFloat(1), height |-> h,
                  vy |-> -(SubPixel + 1), vx |-> 1, color |-> 16777215, active |-> 1]
    /\ group = NoGroup
    /\ last_time = 0
    /\ screen = <<>>
    /\ blink = NoBlink
    /\ image = NoImage
    /\ game = NoGame
    /\ gcall = NoSceneCall

\* arcade_move_sprite(&ball, gravity, window_height), the ball not having
\* left the window to the right
MoveSprite(gravity) ==
    /\ ~fault
    /\ ball.x <= ToFloat(WindowWidth)
    /\ ball' = ArcadeMoveSprite(ball, gravity, MaxHeight)
    /\ gcall' = [fn |-> "arcade_move_sprite", gravity |-> gravity]
    /\ UNCHANGED <<paddle, group, last_time, screen, blink, image, game>>
    /\ UNCHANGED spriteVars
    /\ UNCHANGED <<loopVars, lifeVars>>

MoveNext ==
    \/ \E gravity \in Gravities : MoveSprite(gravity)
    \/ \E gravity \in Gravities : MoveImage(gravity)

(***************************************************************************)
(* A program with a 40x40 image sprite resting on the floor of a window    *)
(* 600 pixels high, at (70, 560): it moves the sprite with gravity 0.5 and *)
(* sets its vertical velocity to jump.                                     *)
(***************************************************************************)
\* 0.5f, to the resolution of the model
HalfPixel == SubPixel \div 2

\* The program before arcade_init, the sprite made.
FallInit ==
    /\ platform \in Platforms
    /\ queue = <<>>
    /\ key_states = AllUp
    /\ last_key_states = AllUp
    /\ running = 0
    /\ global_frame_counter = 0
    /\ pc = "start"
    /\ call = NoCall
    /\ hist = HistInit
    /\ handles = NoResources.handles
    /\ win = NoResources.win
    /\ pixels = <<>>
    /\ held = {}
    /\ initCall = [ret |-> -1, acq |-> <<>>, rel |-> <<>>]
    /\ misuse = {}
    /\ LET i == ArcadeCreateImageSprite(ToFloat(70), ToFloat(560), ToFloat(40), ToFloat(40),
                                        "ok", <<>>)
       IN  /\ pipe = i.sprite
           /\ heap = i.heap
    /\ player = EmptyAnim
    /\ fault = FALSE
    /\ sc = [NoSpriteCall EXCEPT !.made = {"pipe"}]
    /\ SceneInit

\* arcade_move_image_sprite(&pipe, 0.5f, 600)
Fall ==
    /\ ~fault
    /\ pipe' = ArcadeMoveImageSprite(pipe, HalfPixel, 600)
    /\ sc' = [sc EXCEPT !.fn = "arcade_move_image_sprite"]
    /\ gcall' = [fn |-> "arcade_move_image_sprite", before |-> pipe,
                 gravity |-> HalfPixel, window_height |-> 600]
    /\ UNCHANGED <<paddle, ball, group, last_time, screen, blink, image, game>>
    /\ UNCHANGED <<player, heap, fault>>
    /\ UNCHANGED <<loopVars, lifeVars>>

\* pipe.vy = jump_vy, with jump_vy = -6.0f
Flap ==
    /\ ~fault
    /\ pipe' = [pipe EXCEPT !.vy = ToFloat(-6)]
    /\ sc' = [sc EXCEPT !.fn = "caller"]
    /\ gcall' = [fn |-> "caller"]
    /\ UNCHANGED <<paddle, ball, group, last_time, screen, blink, image, game>>
    /\ UNCHANGED <<player, heap, fault>>
    /\ UNCHANGED <<loopVars, lifeVars>>

FallNext ==
    \/ Fall
    \/ Flap

(***************************************************************************)
(* arcade_delta_time.  Clock readings and last_time are whole numbers of   *)
(* clock units, Tenth of them in 0.1 s; a reading of 0 is also what the    *)
(* function is left with when every clock call failed.                     *)
(***************************************************************************)
\* clock units in 0.1 s (0.1f)
Tenth == 2

\* the largest clock reading
MaxClock == 6

\* the calls counted
MaxCalls == 3

\* the largest magnitude a float holds to the clock's resolution
SingleExact == 3

\* (float)d of a double d: exact up to SingleExact, beyond it the last bit of
\* the double is lost and d is rounded to the nearest even number of units
\* (a tie away from zero).  Monotone, and the sign is kept.
ToSingle(d) ==
    LET m == IF d < 0 THEN -d ELSE d
        r == IF m <= SingleExact THEN m ELSE 2 * ((m + 1) \div 2)
    IN  IF d < 0 THEN -r ELSE r

\* arcade_delta_time without the upper clamp
ArcadeDeltaTimeNoCap(current_time, last) ==
    IF last = 0 \/ current_time = 0
    THEN [ret |-> 0, last_time |-> current_time]
    ELSE LET delta_time == ToSingle(current_time - last)
         IN  [ret |-> IF delta_time < 0 THEN 0 ELSE delta_time,
              last_time |-> current_time]

\* arcade_delta_time with the clock reading current_time and the static
\* last_time = last: the value returned and the new last_time.
ArcadeDeltaTime(current_time, last) ==
    IF last = 0 \/ current_time = 0
    THEN [ret |-> 0, last_time |-> current_time]
    ELSE LET delta_time == ToSingle(current_time - last)
             capped == IF delta_time > Tenth THEN Tenth ELSE delta_time
         IN  [ret |-> IF capped < 0 THEN 0 ELSE capped,
              last_time |-> current_time]

\* The program before its first call of arcade_delta_time.
ClockInit == LifeInit

\* float delta_time = arcade_delta_time(), the clock reading now.
\* gcall.calls: the calls made so far, counted up to MaxCalls.
DeltaTime(now) ==
    /\ LET r == ArcadeDeltaTime(now, last_time)
       IN  /\ last_time' = r.last_time
           /\ gcall' = [fn |-> "arcade_delta_time", now |-> now,
                        before |-> last_time, ret |-> r.ret,
                        calls |-> IF gcall.calls < MaxCalls
                                  THEN gcall.calls + 1 ELSE MaxCalls]
    /\ UNCHANGED <<paddle, ball, group, screen, blink, image, game>>
    /\ UNCHANGED <<loopVars, lifeVars, spriteVars>>

ClockNext ==
    \E now \in 0..MaxClock : DeltaTime(now)

(***************************************************************************)
(* A program that paints two sprites: it has made a window and a group,    *)
(* has put two sprites anywhere about the window (left of it, above it,    *)
(* across an edge, beyond it; smaller or larger than the window; active    *)
(* or hidden) and has added them to the group.  It renders the group.      *)
(***************************************************************************)
\* The image sprite of the program: a 2 x 2 image.
PaintImage == ArcadeCreateImageSprite(0, 0, ToFloat(2), ToFloat(2), "ok", <<>>)

\* x and y of a sprite: half a pixel or a pixel before the edge of the
\* window, on the edge, a pixel before the far edge, on the far edge.
PaintXs == {-1, ToFloat(-1), ToFloat(0), ToFloat(WindowWidth - 1), ToFloat(WindowWidth)}
PaintYs == {ToFloat(-1), ToFloat(0), ToFloat(MaxHeight - 1), ToFloat(MaxHeight)}

\* width and height of a sprite: one pixel, or more than the window and the
\* image have
PaintSizes == {ToFloat(1), ToFloat(MaxHeight + 1)}

\* The entries the program can add: colour sprites of the given colour and
\* copies of the image sprite with x, y, width and height set, and a hidden
\* sprite of each kind.
PaintEntries(color) ==
    {[type |-> SPRITE_COLOR,
      sprite |-> [x |-> x, y |-> y, width |-> d, height |-> d, vy |-> 0, vx |-> 0,
                  color |-> color, active |-> 1]] :
        x \in PaintXs, y \in PaintYs, d \in PaintSizes}
    \cup {[type |-> SPRITE_IMAGE,
           sprite |-> [PaintImage.sprite EXCEPT !.x = x, !.y = y,
                                                !.width = d, !.height = d]] :
             x \in PaintXs, y \in PaintYs, d \in PaintSizes}
    \cup {[type |-> SPRITE_COLOR,
           sprite |-> [x |-> 0, y |-> 0, width |-> ToFloat(MaxHeight + 1),
                       height |-> ToFloat(MaxHeight + 1), vy |-> 0, vx |-> 0,
                       color |-> color, active |-> 0]],
          [type |-> SPRITE_IMAGE,
           sprite |-> [PaintImage.sprite EXCEPT !.width = ToFloat(MaxHeight + 1),
                                                !.height = ToFloat(MaxHeight + 1),
                                                !.active = 0]]}

\* The program after arcade_init(WindowWidth, MaxHeight, ..., 8),
\* arcade_init_group and two calls of arcade_add_sprite_to_group.
PaintInit ==
    /\ WindowInit(WindowWidth, MaxHeight, 8)
    /\ pipe = PaintImage.sprite
    /\ player = EmptyAnim
    /\ fault = FALSE
    /\ sc = [NoSpriteCall EXCEPT !.made = {"pipe"}]
    /\ paddle = NoColorSprite
    /\ ball = NoColorSprite
    /\ last_time = 0
    /\ screen = <<>>
    /\ blink = NoBlink
    /\ image = NoImage
    /\ game = NoGame
    /\ \E e1 \in PaintEntries(255), e2 \in PaintEntries(65280) :
          LET g0 == ArcadeInitGroup(MaxCapacity, TRUE, TRUE, PaintImage.heap)
              g1 == ArcadeAddSpriteToGroup(g0.group, e1.sprite, e1.type).group
              g2 == ArcadeAddSpriteToGroup(g1, e2.sprite, e2.type).group
          IN  /\ heap = g0.heap
              /\ group = g2
              /\ gcall = [fn |-> "arcade_add_sprite_to_group", before |-> g1,
                          sprite |-> e2.sprite, type |-> e2.type]

PaintNext == RenderGroup

(***************************************************************************)
(* A program with a title screen: every tick of its main loop it renders   *)
(* its group, draws, or not, a line of text, draws a blinking text and     *)
(* then, or not, a centered line.                                          *)
(***************************************************************************)
\* ticks of one run of the title screen
MaxBlinkTicks == 6

\* the values of blink_interval
BlinkIntervals == 1..MaxInterval

\* the texts drawn: a null pointer, one character, more characters than the
\* window is wide
Texts == {-1, 1, WindowWidth + 1}

\* y of a text: the first row, the last row, below the window
TextYs == {ToFloat(0), ToFloat(MaxHeight - 1), ToFloat(MaxHeight)}

\* The font handle of the build.
Font == IF platform = "win32" THEN handles["hfont"] ELSE handles["font"]

\* The program at the top of its main loop: the window made, a colour
\* sprite in its group, nothing rendered yet.
TextInit ==
    /\ WindowInit(WindowWidth, MaxHeight, 8)
    /\ pipe = NoSprite
    /\ player = EmptyAnim
    /\ fault = FALSE
    /\ sc = NoSpriteCall
    /\ paddle = NoColorSprite
    /\ ball = [x |-> 0, y |-> 0, width |-> ToFloat(1), height |-> ToFloat(MaxHeight),
               vy |-> 0, vx |-> 0, color |-> 65280, active |-> 1]
    /\ LET g == ArcadeInitGroup(1, TRUE, TRUE, <<>>)
       IN  /\ heap = g.heap
           /\ group = ArcadeAddSpriteToGroup(g.group, ball, SPRITE_COLOR).group
    /\ last_time = 0
    /\ screen = <<>>
    /\ \E i \in BlinkIntervals : blink = [interval |-> i, drawn |-> <<>>]
    /\ image = NoImage
    /\ game = NoGame
    /\ gcall = [fn |-> "arcade_init"]

\* The text calls.
TextFns == {"arcade_render_text", "arcade_render_text_centered",
            "arcade_render_text_centered_blink"}

\* arcade_update() at the top of the loop, no event pending.
TextUpdate ==
    /\ gcall.fn \in {"arcade_init", "arcade_render_text_centered_blink",
                    "arcade_render_text_centered"}
    /\ global_frame_counter < MaxBlinkTicks
    /\ LET r == ArcadeUpdate(platform, queue, key_states, running, global_frame_counter)
       IN  /\ global_frame_counter' = r.gfc
           /\ key_states' = r.ks
           /\ queue' = r.rest
           /\ running' = r.running
    /\ gcall' = [fn |-> "arcade_update"]
    /\ UNCHANGED <<platform, last_key_states, pc, call, hist>>
    /\ UNCHANGED <<paddle, ball, group, last_time, screen, blink, image, game>>
    /\ UNCHANGED <<lifeVars, spriteVars>>

\* arcade_render_group(&group), first in the body of the loop.
TextRender ==
    /\ gcall.fn = "arcade_update"
    /\ RenderGroup

\* arcade_render_text_centered_blink(text, y, 0xFF0000, blink.interval),
\* once per tick.
TextBlink(text, y) ==
    /\ gcall.fn \in {"arcade_render_group", "arcade_render_text"}
    /\ LET r == ArcadeRenderTextCenteredBlink(platform, Font, text, y, 16711680,
                                              blink.interval, global_frame_counter,
                                              pixels, screen, win)
       IN  /\ pixels' = r.pixels
           /\ screen' = r.screen
           /\ blink' = [blink EXCEPT !.drawn = Append(@, r.drew)]
           /\ gcall' = [fn |-> "arcade_render_text_centered_blink", text |-> text,
                        x |-> ((win.width - text) * SubPixel) \div 2, y |-> y,
                        color |-> 16711680, drew |-> r.drew,
                        before |-> pixels, shown |-> screen]
    /\ UNCHANGED <<paddle, ball, group, last_time, image, game>>
    /\ UNCHANGED <<handles, win, held, initCall, misuse>>
    /\ UNCHANGED <<loopVars, spriteVars>>

\* arcade_render_text(text, x, y, 0xFF0000) after the render.
Text(text, x, y) ==
    /\ gcall.fn = "arcade_render_group"
    /\ LET r == ArcadeRenderText(platform, Font, text, x, y, 16711680, pixels, screen, win)
       IN  /\ pixels' = r.pixels
           /\ screen' = r.screen
           /\ gcall' = [fn |-> "arcade_render_text", text |-> text, x |-> x, y |-> y,
                        color |-> 16711680, drew |-> (text # -1 /\ Font # "null"),
                        before |-> pixels, shown |-> screen]
    /\ UNCHANGED <<paddle, ball, group, last_time, blink, image, game>>
    /\ UNCHANGED <<handles, win, held, initCall, misuse>>
    /\ UNCHANGED <<loopVars, spriteVars>>

\* arcade_render_text_centered(text, y, 0x0000FF) after the blinking text.
TextCentered(text, y) ==
    /\ gcall.fn = "arcade_render_text_centered_blink"
    /\ LET r == ArcadeRenderTextCentered(platform, Font, text, y, 255, pixels, screen, win)
       IN  /\ pixels' = r.pixels
           /\ screen' = r.screen
           /\ gcall' = [fn |-> "arcade_render_text_centered", text |-> text,
                        x |-> ((win.width - text) * SubPixel) \div 2, y |-> y,
                        color |-> 255, drew |-> (text # -1 /\ Font # "null"),
                        before |-> pixels, shown |-> screen]
    /\ UNCHANGED <<paddle, ball, group, last_time, blink, image, game>>
    /\ UNCHANGED <<handles, win, held, initCall, misuse>>
    /\ UNCHANGED <<loopVars, spriteVars>>

TextNext ==
    \/ TextUpdate
    \/ TextRender
    \/ \E text \in Texts, x \in PaintXs, y \in TextYs : Text(text, x, y)
    \/ \E text \in Texts \ {-1}, y \in TextYs : TextBlink(text, y)
    \/ \E text \in Texts, y \in TextYs : TextCentered(text, y)

(***************************************************************************)
(* A program that flips and rotates an image file, each call made on the   *)
(* file the call before it wrote.  gcall holds the last call, the number   *)
(* n of calls in a row made with it, up to 4, and the image `orig` the     *)
(* first of them read.                                                     *)
(***************************************************************************)
\* the largest width and height of an image file
MaxSide == 3

\* The image files: of every size up to MaxSide x MaxSide, one with all
\* its pixels different and those with one pixel set.
Images ==
    UNION {{[width |-> w, height |-> h, data |-> [i \in 1..(w * h) |-> i]]}
           \cup {[width |-> w, height |-> h,
                  data |-> [i \in 1..(w * h) |-> IF i = k THEN 1 ELSE 0]] :
                    k \in 1..(w * h)} :
           w \in 1..MaxSide, h \in 1..MaxSide}

\* degrees: the three rotations and two values that are none of them
Degrees == {0, 90, 180, 270, 45}

\* flip_type: 1 is the vertical flip, any other value the horizontal one
FlipTypes == {0, 1, 2}

\* The program before its first call, the file on disk.
TransformInit ==
    /\ platform \in Platforms
    /\ queue = <<>>
    /\ key_states = AllUp
    /\ last_key_states = AllUp
    /\ running = 0
    /\ global_frame_counter = 0
    /\ pc = "start"
    /\ call = NoCall
    /\ hist = HistInit
    /\ handles = NoResources.handles
    /\ win = NoResources.win
    /\ pixels = <<>>
    /\ held = {}
    /\ initCall = [ret |-> -1, acq |-> <<>>, rel |-> <<>>]
    /\ misuse = {}
    /\ SpriteInit
    /\ paddle = NoColorSprite
    /\ ball = NoColorSprite
    /\ group = NoGroup
    /\ last_time = 0
    /\ screen = <<>>
    /\ blink = NoBlink
    /\ gcall = NoSceneCall
    /\ image \in Images
    /\ game = NoGame

\* The call fn(file, arg) after the call gcall.
Repeated(fn, arg) ==
    IF gcall.fn = fn /\ gcall.arg = arg /\ gcall.n < 4
    THEN [fn |-> fn, arg |-> arg, n |-> gcall.n + 1, orig |-> gcall.orig]
    ELSE [fn |-> fn, arg |-> arg, n |-> 1, orig |-> image]

\* path = arcade_rotate_image(path, degrees)
Rotate(degrees) ==
    /\ image' = RotateImage(image, degrees)
    /\ gcall' = Repeated("arcade_rotate_image", degrees)
    /\ UNCHANGED <<paddle, ball, group, last_time, screen, blink, game>>
    /\ UNCHANGED <<loopVars, lifeVars, spriteVars>>

\* path = arcade_flip_image(path, flip_type)
Flip(flip_type) ==
    /\ image' = FlipImage(image, flip_type)
    /\ gcall' = Repeated("arcade_flip_image", flip_type)
    /\ UNCHANGED <<paddle, ball, group, last_time, screen, blink, game>>
    /\ UNCHANGED <<loopVars, lifeVars, spriteVars>>

TransformNext ==
    \/ \E degrees \in Degrees : Rotate(degrees)
    \/ \E flip_type \in FlipTypes : Flip(flip_type)

(***************************************************************************)
(* A program that makes an image sprite, from a file that loads or from    *)
(* one that does not, and calls arcade_free_image_sprite any number of     *)
(* times, on the sprite or on a null pointer.                              *)
(***************************************************************************)
\* arcade_free_image_sprite(is_null ? NULL : &pipe).  While sc.fn names
\* this call, gcall holds the sprite and the heap before it and the number
\* of such calls so far, up to MaxCalls.
Release(is_null) ==
    /\ ~fault
    /\ ~is_null => "pipe" \in sc.made
    /\ LET r == IF is_null THEN [sprite |-> pipe, heap |-> heap]
                ELSE ArcadeFreeImageSprite(pipe, heap)
       IN  /\ pipe' = r.sprite
           /\ heap' = r.heap
    /\ sc' = [sc EXCEPT !.fn = "arcade_free_image_sprite", !.base = Len(heap)]
    /\ gcall' = [fn |-> "arcade_free_image_sprite", is_null |-> is_null,
                 before |-> pipe, heap |-> heap,
                 calls |-> IF gcall.calls < MaxCalls THEN gcall.calls + 1 ELSE MaxCalls]
    /\ UNCHANGED <<paddle, ball, group, last_time, screen, blink, image, game>>
    /\ UNCHANGED <<player, fault>>
    /\ UNCHANGED <<loopVars, lifeVars>>

ReleaseNext ==
    \/ \E x \in StartXs, y \in StartYs, w \in Sizes, filename \in Files :
          CreateImage(x, y, w, filename)
    \/ \E is_null \in BOOLEAN : Release(is_null)

\* Any body.
LoopNext ==
    \/ \E e \in Events : OsEvent(e, FALSE)
    \/ LoopExit
    \/ LoopUpdate(FALSE)
    \/ \E k \in Keys : QueryOnce(k, FALSE)
    \/ \E k \in Keys : QueryHeld(k)
    \/ ClearKeys
    \/ SetRunning
    \/ Render
    \/ Sleep

\* A body that calls arcade_key_pressed_once exactly once per key and tick and
\* never calls arcade_clear_keys.
RenderAfterQueries ==
    /\ hist.queried = Keys
    /\ Render

QueryOncePerTick(k) ==
    /\ k \notin hist.queried
    /\ QueryOnce(k, TRUE)

OncePerTickNext ==
    \/ \E e \in Events : OsEvent(e, TRUE)
    \/ LoopUpdate(TRUE)
    \/ \E k \in Keys : QueryOncePerTick(k)
    \/ RenderAfterQueries
    \/ Sleep

Init == LoopInit

Next == LoopNext

Spec == Init /\ [][Next]_vars

SpecOncePerTick == Init /\ [][OncePerTickNext]_vars

SpecLife == LifeInit /\ [][LifeNext]_vars

SpecImage == Init /\ [][ImageNext]_vars

SpecSprite == Init /\ [][SpriteNext]_vars

SpecGroup == StageInit /\ [][GroupNext]_vars

SpecCollide == CollideInit /\ [][CollideNext]_vars

SpecMove == MoveInit /\ [][MoveNext]_vars

SpecFall == FallInit /\ [][FallNext]_vars

SpecClock == ClockInit /\ [][ClockNext]_vars

SpecPaint == PaintInit /\ [][PaintNext]_vars

SpecText == TextInit /\ [][TextNext]_vars

SpecTransform == TransformInit /\ [][TransformNext]_vars

SpecRelease == LifeInit /\ [][ReleaseNext]_vars

(***************************************************************************)
(* Properties of the event pump, the key tables and the main loop.         *)
(***************************************************************************)

\* C1, as stated: with arcade_key_pressed_once queried once per tick, every
\* press (from a key-down event that finds the key up to the next key-up
\* event) that is down at N >= 1 queries yields exactly one result 2.
C1_EveryPressReportedOnce ==
    \A k \in Keys : hist.evRun[k] >= 1 => hist.evTwos[k] = 1

\* C1, amended: with arcade_key_pressed_once queried once per tick and no
\* arcade_clear_keys, a press as the queries see it (N >= 1 consecutive queries
\* that find the key down, after a query that found it up or after no query)
\* yields exactly one result 2, at its first query; the later ones return 0
\* until a query has found the key up again.
C1_SeenPressReportedOnce ==
    \A k \in Keys : hist.run[k] >= 1 => hist.twos[k] = 1

\* A key was found down at MaxHold consecutive queries.
C1_Witness ==
    \E k \in Keys : hist.run[k] = MaxHold /\ hist.twos[k] = 1

\* C2: a call of arcade_key_pressed_once(k) copies k's current state into its
\* previous state and changes no other entry of either table; a call that
\* directly follows a call for the same key that returned 2 returns 0.
C2_Call(k) ==
    /\ hist'.nq = hist.nq + 1
    /\ call'.fn = "arcade_key_pressed_once"
    /\ call'.key = k

C2_Effect(k) ==
    LET key == KeySlot(platform, k)
    IN  /\ last_key_states'[key] = key_states[key]
        /\ \A s \in Slots \ {key} : last_key_states'[s] = last_key_states[s]
        /\ key_states' = key_states
        /\ call'.after2 => call'.ret = 0

C2_EdgeConsumed == [][\A k \in Keys : C2_Call(k) => C2_Effect(k)]_vars

\* The second of two calls for a key, the first of which returned 2.
C2_Witness ==
    /\ call.fn = "arcade_key_pressed_once"
    /\ call.after2
    /\ call.ret = 0
    /\ \E s \in Slots : s # KeySlot(platform, call.key)
                          /\ key_states[s] = 1 /\ last_key_states[s] = 0

\* C3: right after arcade_clear_keys both tables are all-up; and for a key
\* with no key-down event pumped since the call, the key stays up in the table
\* and arcade_key_pressed and arcade_key_pressed_once return 0.
C3_ClearKeys ==
    /\ call.fn = "arcade_clear_keys" => key_states = AllUp /\ last_key_states = AllUp
    /\ \A k \in Keys :
          (hist.clearTick # 0 /\ k \notin hist.downSinceClear) =>
              /\ key_states[KeySlot(platform, k)] = 0
              /\ (call.key = k /\ call.fn \in {"arcade_key_pressed",
                                              "arcade_key_pressed_once"})
                    => call.ret = 0

\* A key that was down when arcade_clear_keys was called is queried in a later
\* tick, no key-down event for it having been pumped.
C3_Witness ==
    /\ hist.clearTick # 0
    /\ global_frame_counter > hist.clearTick
    /\ call.fn = "arcade_key_pressed_once"
    /\ call.key \in hist.heldAtClear
    /\ call.key \notin hist.downSinceClear
    /\ call.ret = 0

\* C4: once the body has called arcade_set_running(0), the tick goes on (it is
\* rendered and slept), no other tick starts (no further arcade_update call),
\* and the loop condition, evaluated next, ends the loop.
C4_NoFurtherTick ==
    hist.stopTick # 0 =>
        /\ global_frame_counter = hist.stopTick
        /\ hist.updates = hist.stopUpdates
        /\ pc \in {"cond", "exited"} =>
              hist.rendered = hist.stopTick /\ hist.slept = hist.stopTick

C4_LoopEnds ==
    (hist.stopTick # 0 /\ pc = "cond" /\ pc' # pc) => pc' = "exited"

C4_StopAfterTick == [](C4_NoFurtherTick) /\ [][C4_LoopEnds]_vars

\* The loop has ended after a tick in which the body asked to stop.
C4_Witness ==
    /\ pc = "exited"
    /\ hist.stopTick = MaxTicks
    /\ hist.rendered = hist.stopTick
    /\ hist.slept = hist.stopTick

\* C5: a call of arcade_update with no close event pending processes every
\* pending event (the queue is empty, each key holds the state of the last
\* event for it) and returns 1; with a close event pending it processes the
\* events before the first close event, sets the running flag to 0 and returns
\* 0, and the loop runs no further tick body.
C5_LastEvent(q, s) ==
    LET idx == {i \in 1..Len(q) : KeySlot(platform, q[i].sym) = s}
        last == CHOOSE i \in idx : \A j \in idx : j <= i
    IN  IF idx = {} THEN key_states[s]
        ELSE IF q[last].type = "KeyPress" THEN 1 ELSE 0

C5_UpdateStep ==
    LET closes == {i \in 1..Len(queue) : queue[i].type = "Close"}
        first == CHOOSE i \in closes : \A j \in closes : i <= j
    IN  hist'.updates = hist.updates + 1 =>
          IF closes = {}
          THEN /\ call'.ret = 1
               /\ queue' = <<>>
               /\ \A s \in Slots : key_states'[s] = C5_LastEvent(queue, s)
               /\ global_frame_counter' = global_frame_counter + 1
               /\ running' = running
               /\ pc' = "body"
          ELSE /\ call'.ret = 0
               /\ queue' = SubSeq(queue, first + 1, Len(queue))
               /\ \A s \in Slots :
                     key_states'[s] = C5_LastEvent(SubSeq(queue, 1, first - 1), s)
               /\ global_frame_counter' = global_frame_counter
               /\ running' = 0
               /\ pc' = "exited"

C5_NoTickAfterClose ==
    hist.closed => pc = "exited" /\ pc' = "exited" /\ running = 0

C5_UpdateDrains == [][C5_UpdateStep /\ C5_NoTickAfterClose]_vars

\* After at least one tick arcade_update met a close event with another event
\* behind it, and the loop has ended.
C5_Witness ==
    /\ hist.closed
    /\ pc = "exited"
    /\ running = 0
    /\ global_frame_counter >= 1
    /\ queue # <<>>

(***************************************************************************)
(* C6.  When an acquisition step of arcade_init fails, arcade_init returns *)
(* non-zero having released every resource it acquired earlier in the      *)
(* call, in the reverse of the order of acquisition, and none is still     *)
(* held.  (As stated; the X11 build does not do this: see C6_FontLeaked.)  *)
(***************************************************************************)
Reverse(s) == [i \in 1..Len(s) |-> s[Len(s) + 1 - i]]

C6_ReverseUnwind ==
    (call.fn = "arcade_init" /\ initCall.ret # 0)
        => /\ initCall.rel = Reverse(initCall.acq)
           /\ held = {}

\* The state the claim excludes: arcade_init has failed and the font it
\* loaded is still held.
C6_FontLeaked ==
    /\ call.fn = "arcade_init"
    /\ initCall.ret # 0
    /\ "font" \in held

(***************************************************************************)
(* Properties of the sprites.                                              *)
(***************************************************************************)

\* The blocks allocated by the sprite call made last.
NewBlocks == (sc.base + 1)..Len(heap)

\* C7: a call of arcade_create_animated_sprite that has allocated its frame
\* array is all-or-nothing.  If the file at index i is the first that does
\* not load, the call returns the empty animation and every block allocated
\* in the call (the pixel buffers of the frames before i, the frame array,
\* the buffers used while loading) has been freed exactly once; if every
\* file loads, the animation has all its frames, each with a live pixel
\* buffer of its own in the live frame array.
C7_AllOrNothing ==
    (sc.fn = "arcade_create_animated_sprite" /\ sc.array_ok) =>
        LET i == FirstFailure(sc.files)
        IN  /\ ~fault
            /\ i # 0 =>
                 /\ player = EmptyAnim
                 /\ Len(heap) - sc.base >= 1 + 3 * (i - 1)
                 /\ \A b \in NewBlocks : heap[b] = 1
            /\ i = 0 =>
                 /\ player.frames \in NewBlocks
                 /\ heap[player.frames] = 0
                 /\ player.frame_count = Len(sc.files)
                 /\ Len(player.elems) = player.frame_count
                 /\ \A f \in 1..player.frame_count :
                       /\ player.elems[f].pixels \in NewBlocks \ {player.frames}
                       /\ heap[player.elems[f].pixels] = 0
                       /\ \A g \in 1..player.frame_count :
                             player.elems[f].pixels = player.elems[g].pixels => f = g
                 /\ Live(heap) \cap NewBlocks
                       = {player.frames} \cup {player.elems[f].pixels :
                                                 f \in 1..player.frame_count}

\* The last of MaxFrames files does not load, the ones before it did.
C7_Witness ==
    /\ sc.fn = "arcade_create_animated_sprite"
    /\ sc.array_ok
    /\ Len(sc.files) = MaxFrames
    /\ FirstFailure(sc.files) = MaxFrames
    /\ player = EmptyAnim
    /\ Len(heap) - sc.base = 1 + 3 * (MaxFrames - 1) + 2

\* C8, as stated: when a stage of the load fails, arcade_create_image_sprite
\* returns a sprite with pixels = NULL and active = 0; active is 1 only
\* when the load succeeds.  (The code returns active = 1 in both cases.)
C8_FailureSentinel ==
    sc.fn = "arcade_create_image_sprite" =>
        /\ sc.file \in LoadFailures => (pipe.pixels = 0 /\ pipe.active = 0)
        /\ pipe.active = 1 => sc.file = "ok"

\* The state the claim excludes: a load has failed and the sprite returned
\* is active.
C8_ActiveAfterFailure ==
    /\ sc.fn = "arcade_create_image_sprite"
    /\ sc.file \in LoadFailures
    /\ pipe.pixels = 0
    /\ pipe.active = 1

\* C9: on an animation whose first frame is active, sc.calls calls of
\* arcade_move_animated_sprite made from frame_counter = 0 and current frame
\* sc.start: frame_interval calls advance current_frame by 1 modulo
\* frame_count, frame_interval * frame_count calls bring it back to
\* sc.start, and every frame_interval calls in between advance it by 1.
C9_FrameCycle ==
    sc.calls > 0 =>
        /\ player.frame_count >= 1 /\ player.frame_interval >= 1
        /\ sc.calls = player.frame_interval
              => player.current_frame = (sc.start + 1) % player.frame_count
        /\ sc.calls = player.frame_interval * player.frame_count
              => player.current_frame = sc.start
        /\ sc.calls % player.frame_interval = 0
              => player.current_frame
                   = (sc.start + sc.calls \div player.frame_interval)
                        % player.frame_count

\* A whole cycle of the longest animation at the longest interval.
C9_Witness ==
    /\ sc.fn = "arcade_move_animated_sprite"
    /\ player.frame_count = MaxFrames
    /\ player.frame_interval = MaxInterval
    /\ sc.calls = MaxInterval * MaxFrames
    /\ player.current_frame = sc.start

\* All frames of the animation have the same position and velocity.
Synced(a) ==
    \A i, j \in 1..a.frame_count :
        /\ a.elems[i].x = a.elems[j].x
        /\ a.elems[i].y = a.elems[j].y
        /\ a.elems[i].vx = a.elems[j].vx
        /\ a.elems[i].vy = a.elems[j].vy

\* C10, as stated: after every call of arcade_move_animated_sprite all
\* frames of the animation have identical position and velocity.
C10_SyncedAfterEveryCall ==
    (sc.fn = "arcade_move_animated_sprite" /\ ~fault) => Synced(player)

\* C10, amended: a call of arcade_move_animated_sprite on an animation whose
\* first frame is active moves the frame that is current and no other, and
\* gives its x, y, vx, vy to every other frame, whose other fields it leaves
\* alone: after the call all frames have identical position and velocity.
C10_MoveStep ==
    /\ sc'.fn = "arcade_move_animated_sprite"
    /\ player.frames # 0
    /\ player.elems[1].active # 0

C10_MoveEffect ==
    LET cur == player.current_frame + 1
    IN  /\ Synced(player')
        /\ \E gravity \in Gravities :
              player'.elems[cur]
                 = ArcadeMoveImageSprite(player.elems[cur], gravity, MaxHeight)
        /\ \A i \in 1..player.frame_count :
              player'.elems[i]
                 = [player.elems[i] EXCEPT !.x = player'.elems[cur].x,
                                           !.y = player'.elems[cur].y,
                                           !.vx = player'.elems[cur].vx,
                                           !.vy = player'.elems[cur].vy]
                 \/ i = cur

C10_SyncedWhenActive == [][C10_MoveStep => C10_MoveEffect]_vars

\* A call on an active animation that was showing a later frame, whose
\* velocity the caller had set: every frame has the velocity of that frame
\* after the step.
C10_Witness ==
    /\ sc.fn = "arcade_move_animated_sprite"
    /\ sc.active0
    /\ sc.before # 0
    /\ player.frame_count = MaxFrames
    /\ \E jump_vy \in JumpVys, gravity \in Gravities :
          \A i \in 1..player.frame_count : player.elems[i].vy = jump_vy + gravity

(***************************************************************************)
(* Properties of the sprite group and of rendering.                        *)
(***************************************************************************)
\* The group g is the group g0 with the entry e appended at index g0.count
\* (slot g0.count + 1) and nothing else changed.
Appended(g0, g, e) ==
    /\ g.count = g0.count + 1
    /\ g.capacity = g0.capacity
    /\ g.sprites = g0.sprites
    /\ g.types = g0.types
    /\ g.slots[g0.count + 1] = e
    /\ \A i \in 1..g0.capacity : i # g0.count + 1 => g.slots[i] = g0.slots[i]

\* An arcade_add_animated_to_group call that adds: its pointer is not null
\* and the first frame of the animation is active.
C11_Adds ==
    /\ gcall.a # "NULL"
    /\ gcall.anim.elems[1].active # 0

\* C11: for a group created with capacity C (the arrays allocated) and any
\* sequence of arcade_add_sprite_to_group / arcade_add_animated_to_group
\* calls and count resets, 0 <= count <= C; an add performed when count = C
\* leaves the count and every stored entry unchanged, and an add performed
\* when count < C appends exactly one entry at index count.
C11_CountWithinCapacity ==
    (~fault /\ gcall.fn # "none") =>
        /\ 0 <= group.count
        /\ group.count <= group.capacity
        /\ gcall.fn = "arcade_add_sprite_to_group" =>
              /\ gcall.before.count = gcall.before.capacity => group = gcall.before
              /\ gcall.before.count < gcall.before.capacity =>
                    Appended(gcall.before, group,
                             [type |-> gcall.type, sprite |-> gcall.sprite])
        /\ gcall.fn = "arcade_add_animated_to_group" =>
              /\ gcall.before.count = gcall.before.capacity => group = gcall.before
              /\ (gcall.before.count < gcall.before.capacity /\ C11_Adds) =>
                    /\ group.count = gcall.before.count + 1
                    /\ \A i \in 1..group.capacity :
                          i # group.count => group.slots[i] = gcall.before.slots[i]

\* An add has been made on a full group that holds entries.
C11_Witness ==
    /\ ~fault
    /\ gcall.fn = "arcade_add_sprite_to_group"
    /\ gcall.before.count = gcall.before.capacity
    /\ gcall.before.capacity = MaxCapacity
    /\ gcall.before.slots[1].type = SPRITE_IMAGE
    /\ gcall.sprite.active = 0

\* C12: arcade_add_animated_to_group appends one entry, of kind
\* SPRITE_IMAGE, holding a copy of frames[current_frame] and of no other
\* frame, to a group that has room; it appends nothing when the first frame
\* of the animation is inactive (or the animation pointer is null).
C12_AddsCurrentFrame ==
    (~fault /\ gcall.fn = "arcade_add_animated_to_group") =>
        IF gcall.a = "NULL" \/ gcall.anim.elems[1].active = 0
        THEN group = gcall.before
        ELSE gcall.before.count < gcall.before.capacity =>
                Appended(gcall.before, group,
                         [type |-> SPRITE_IMAGE,
                          sprite |-> gcall.anim.elems[gcall.anim.current_frame + 1]])

\* The animation has been added while it displayed its second frame.
C12_Witness ==
    /\ ~fault
    /\ gcall.fn = "arcade_add_animated_to_group"
    /\ gcall.a = "player"
    /\ gcall.anim.elems[1].active = 1
    /\ gcall.anim.current_frame = 1
    /\ gcall.before.count < gcall.before.capacity
    /\ group.slots[group.count].sprite.pixels = gcall.anim.elems[2].pixels
    /\ group.slots[group.count].sprite.pixels # gcall.anim.elems[1].pixels

\* The entries of the group that write the pixel i of the buffer, by index.
C20_Writers(i) ==
    {k \in 1..group.count :
        Painted(group.slots[k], Visits(group.slots[k], win), win.width, i - 1, 0) # -1}

\* The value the last of these entries writes.
C20_Written(i) ==
    LET k == CHOOSE k \in C20_Writers(i) : \A j \in C20_Writers(i) : j <= k
    IN  Painted(group.slots[k], Visits(group.slots[k], win), win.width, i - 1, 0)

\* C20: every arcade_render_group / arcade_render_scene call first sets the
\* whole pixel buffer to the background colour: after the call a pixel that
\* no entry of the call wrote equals bg_color, whatever an earlier render
\* call painted there (a pixel that entries wrote holds what the last of
\* them wrote), and rendering the same group twice in a row yields the same
\* buffer as rendering it once.
C20_RenderClears ==
    gcall.fn = "arcade_render_group" =>
        /\ Len(pixels) = win.width * win.height
        /\ \A i \in 1..Len(pixels) :
              pixels[i] = IF C20_Writers(i) = {} THEN win.bg_color ELSE C20_Written(i)
        /\ gcall.again => pixels = gcall.before

\* A render call has erased what an earlier one painted and has painted
\* elsewhere.
C20_Witness ==
    /\ gcall.fn = "arcade_render_group"
    /\ \E i \in 1..Len(pixels) : gcall.before[i] # win.bg_color /\ pixels[i] = win.bg_color
    /\ \E i \in 1..Len(pixels) : pixels[i] # win.bg_color

(***************************************************************************)
(* Properties of the collision tests.                                      *)
(***************************************************************************)
C13_Fns ==
    {"arcade_check_collision", "arcade_check_image_collision",
     "arcade_check_animated_collision"}

\* An operand of the call made last is null or inactive; an animation is
\* inactive when its first frame or its displayed frame is.
C13_Inactive(o, is_anim) ==
    \/ o.null
    \/ IF is_anim
       THEN \/ o.s.elems[1].active = 0
            \/ o.s.elems[o.s.current_frame + 1].active = 0
       ELSE o.s.active = 0

\* C13: if either operand of a collision test (arcade_check_collision,
\* arcade_check_image_collision, arcade_check_animated_collision) is null or
\* has active = 0, the result is 0, for every position and size of the two
\* rectangles, fully overlapping ones included.
C13_InactiveNeverCollides ==
    gcall.fn \in C13_Fns =>
        ((\/ C13_Inactive(gcall.a, gcall.fn = "arcade_check_animated_collision")
          \/ C13_Inactive(gcall.b, FALSE))
            => gcall.ret = 0)

\* Two sprites with the same rectangle have been tested, the first inactive
\* and the second active.
C13_Witness ==
    /\ gcall.fn = "arcade_check_image_collision"
    /\ ~gcall.a.null /\ ~gcall.b.null
    /\ gcall.a.s.active = 0 /\ gcall.b.s.active = 1
    /\ gcall.a.s.x = gcall.b.s.x /\ gcall.a.s.y = gcall.b.s.y
    /\ gcall.a.s.width = gcall.b.s.width /\ gcall.a.s.height = gcall.b.s.height
    /\ gcall.a.s.pixels # gcall.b.s.pixels
    /\ gcall.ret = 0

\* C14: collision is symmetric: for all sprites a and b of the same kind
\* (any positions, sizes and active flags, null pointers included),
\* arcade_check_collision(a, b) = arcade_check_collision(b, a) and
\* arcade_check_image_collision(a, b) = arcade_check_image_collision(b, a).
C14_Symmetric ==
    /\ gcall.fn = "arcade_check_collision" =>
          gcall.ret = ArcadeCheckCollision(gcall.b.null, gcall.b.s, gcall.a.null, gcall.a.s)
    /\ gcall.fn = "arcade_check_image_collision" =>
          gcall.ret = ArcadeCheckImageCollision(gcall.b.null, gcall.b.s,
                                                gcall.a.null, gcall.a.s)

\* The ball, touching the left edge of the paddle, has been tested against
\* it.
C14_Witness ==
    /\ gcall.fn = "arcade_check_collision"
    /\ ~gcall.a.null /\ ~gcall.b.null
    /\ gcall.a.s.active = 1 /\ gcall.b.s.active = 1
    /\ gcall.b.s.x = gcall.a.s.x + gcall.a.s.width
    /\ gcall.a.s.y = gcall.b.s.y
    /\ gcall.ret = 0

\* The rectangles a and b overlap: each one's minimum is strictly less than
\* the other's maximum on both axes.
C15_Overlap(a, b) ==
    /\ a.x < b.x + b.width
    /\ b.x < a.x + a.width
    /\ a.y < b.y + b.height
    /\ b.y < a.y + a.height

\* C15: for two active sprites the collision test returns true iff
\* a.x < b.x + b.width, b.x < a.x + a.width, a.y < b.y + b.height and
\* b.y < a.y + a.height (all four strict): rectangles that only touch along
\* an edge or at a corner do not collide.
C15_StrictOverlap ==
    (/\ gcall.fn \in {"arcade_check_collision", "arcade_check_image_collision"}
     /\ ~gcall.a.null /\ ~gcall.b.null
     /\ gcall.a.s.active # 0 /\ gcall.b.s.active # 0)
        => (gcall.ret = 1 <=> C15_Overlap(gcall.a.s, gcall.b.s))
           /\ gcall.ret \in {0, 1}

\* Two active image sprites that touch at a corner only have been tested.
C15_Witness ==
    /\ gcall.fn = "arcade_check_image_collision"
    /\ ~gcall.a.null /\ ~gcall.b.null
    /\ gcall.a.s.active = 1 /\ gcall.b.s.active = 1
    /\ gcall.a.s.x + gcall.a.s.width = gcall.b.s.x
    /\ gcall.a.s.y + gcall.a.s.height = gcall.b.s.y
    /\ gcall.ret = 0

\* The value of arcade_check_image_collision(&anim->frames[anim->
\* current_frame], other) for the operands of the call made last.
C16_OnCurrentFrame ==
    ArcadeCheckImageCollision(FALSE, gcall.a.s.elems[gcall.a.s.current_frame + 1],
                              gcall.b.null, gcall.b.s)

\* C16 as claimed: for every animation state and every image sprite `other`
\* arcade_check_animated_collision(anim, other) equals
\* arcade_check_image_collision(&anim->frames[anim->current_frame], other).
C16_CurrentFrame ==
    (gcall.fn = "arcade_check_animated_collision" /\ ~gcall.a.null) =>
        gcall.ret = C16_OnCurrentFrame

\* C16: arcade_check_animated_collision(anim, other) equals
\* arcade_check_image_collision(&anim->frames[anim->current_frame], other),
\* with the rectangle and the active flag of that frame, when the first
\* frame of the animation is active; it is 0 when the first frame is
\* inactive.
C16_CurrentFrameWhenActive ==
    (gcall.fn = "arcade_check_animated_collision" /\ ~gcall.a.null) =>
        gcall.ret = IF gcall.a.s.elems[1].active = 0 THEN 0 ELSE C16_OnCurrentFrame

\* The animation has been tested while it displayed its second frame, the
\* first frame inactive, the second overlapping the other sprite.
C16_Witness ==
    /\ gcall.fn = "arcade_check_animated_collision"
    /\ ~gcall.a.null /\ ~gcall.b.null
    /\ gcall.a.s.current_frame = 1
    /\ gcall.a.s.elems[1].active = 0
    /\ C16_OnCurrentFrame = 1
    /\ gcall.ret = 0

(***************************************************************************)
(* Properties of arcade_move_sprite and arcade_move_image_sprite.          *)
(***************************************************************************)
\* y moved by vy + gravity and limited to lo..hi.
C17_Clamp(y, lo, hi) == IF y < lo THEN lo ELSE IF y > hi THEN hi ELSE y

\* The move as claimed, from the sprite s to the sprite t with gravity g in
\* a window wh high: vy += gravity; y += vy; x += vx, then y limited to
\* [0, wh - height] with vy = 0 whenever a limit was applied.
C17_Moved(s, t, g, wh) ==
    LET vy1 == s.vy + g
        y1 == s.y + vy1
        hi == ToFloat(wh) - s.height
    IN  /\ t = [s EXCEPT !.x = s.x + s.vx, !.y = t.y, !.vy = t.vy]
        /\ t.y = C17_Clamp(y1, 0, hi)
        /\ t.vy = IF y1 < 0 \/ y1 > hi THEN 0 ELSE vy1
        /\ 0 <= t.y
        /\ t.y <= hi

\* The move of a sprite taller than the window: y ends at wh - height,
\* below 0, with vy = 0.
C17_MovedTall(s, t, wh) ==
    /\ t = [s EXCEPT !.x = s.x + s.vx, !.y = t.y, !.vy = t.vy]
    /\ t.y = ToFloat(wh) - s.height
    /\ t.vy = 0

\* A step of arcade_move_sprite on the ball, of arcade_move_image_sprite on
\* the image sprite.
C17_BallStep == gcall'.fn = "arcade_move_sprite" /\ pipe' = pipe /\ sc' = sc

C17_ImageStep == sc'.fn = "arcade_move_image_sprite" /\ ball' = ball /\ gcall' = gcall

\* The example: y = 590, vy = 5, height = 40, window_height = 600 end at
\* y = 560, vy = 0.
C17_Example ==
    \A g \in Gravities :
        LET s == [x |-> ToFloat(70), y |-> ToFloat(590), width |-> ToFloat(40),
                  height |-> ToFloat(40), vy |-> ToFloat(5), vx |-> 0,
                  color |-> 0, active |-> 1]
            t == ArcadeMoveSprite(s, g, 600)
        IN  t.y = ToFloat(560) /\ t.vy = 0 /\ t.x = s.x

\* C17 as claimed: for an active sprite arcade_move_sprite /
\* arcade_move_image_sprite computes vy += gravity; y += vy; x += vx and
\* then clamps y into [0, window_height - height], with vy = 0 whenever a
\* bound was applied; after the call 0 <= y <= window_height - height.
C17_ClampedAlways ==
    [][/\ C17_BallStep => C17_Moved(ball, ball', gcall'.gravity, MaxHeight)
       /\ C17_ImageStep => \E g \in Gravities : C17_Moved(pipe, pipe', g, MaxHeight)]_vars

\* C17: for an active sprite no taller than the window arcade_move_sprite /
\* arcade_move_image_sprite computes vy += gravity; y += vy; x += vx and
\* then clamps y into [0, window_height - height], with vy = 0 whenever a
\* bound was applied, so that after the call 0 <= y <= window_height -
\* height (y = 590, vy = 5, height = 40, window_height = 600 end at y = 560,
\* vy = 0); for a sprite taller than the window y ends at window_height -
\* height, below 0, with vy = 0.  x is never clamped.
C17_ClampedInWindow ==
    [][/\ C17_BallStep =>
             IF ball.height <= ToFloat(MaxHeight)
             THEN C17_Moved(ball, ball', gcall'.gravity, MaxHeight)
             ELSE C17_MovedTall(ball, ball', MaxHeight)
       /\ C17_ImageStep =>
             IF pipe.height <= ToFloat(MaxHeight)
             THEN \E g \in Gravities : C17_Moved(pipe, pipe', g, MaxHeight)
             ELSE C17_MovedTall(pipe, pipe', MaxHeight)
       /\ C17_Example]_vars

\* The ball, taller than the window, has been moved and lies above the top
\* of the window; the image sprite, a pixel high, has fallen to the floor
\* and has passed the left edge of the window.
C17_Witness ==
    /\ gcall.fn = "arcade_move_sprite"
    /\ ball.height > ToFloat(MaxHeight)
    /\ ball.y < 0
    /\ ball.x > 0
    /\ sc.fn = "arcade_move_image_sprite"
    /\ pipe.height <= ToFloat(MaxHeight)
    /\ pipe.y = ToFloat(MaxHeight) - pipe.height
    /\ pipe.vy = 0
    /\ pipe.x < 0

\* The sprite of the scenario before the move: 40x40 at (70, 560), vy = 0,
\* moved with gravity 0.5 in a window 600 high.
C18_Scenario ==
    /\ gcall.fn = "arcade_move_image_sprite"
    /\ gcall.gravity = HalfPixel
    /\ gcall.window_height = 600
    /\ gcall.before.x = ToFloat(70)
    /\ gcall.before.y = ToFloat(560)
    /\ gcall.before.width = ToFloat(40)
    /\ gcall.before.height = ToFloat(40)
    /\ gcall.before.vy = 0
    /\ gcall.before.active = 1

\* C18 as claimed: for a 40x40 image sprite at (70, 560) with vy = 0 in a
\* window of height 600, one move call with gravity 0.5 leaves vy = 0.5 and
\* y = 560.5, with no clamping applied.
C18_NoClamp ==
    C18_Scenario => (pipe.vy = HalfPixel /\ pipe.y = ToFloat(560) + HalfPixel)

\* C18: for a 40x40 image sprite at (70, 560) with vy = 0 in a window of
\* height 600, one move call with gravity 0.5 leaves y = 560 and vy = 0: the
\* sprite rests on the floor (560 = 600 - 40), y + vy exceeds it and the
\* clamp is applied.
C18_ClampedAtFloor ==
    C18_Scenario => (pipe.vy = 0 /\ pipe.y = ToFloat(560) /\ pipe.x = ToFloat(70))

\* The sprite of the scenario has been moved.
C18_Witness ==
    /\ C18_Scenario
    /\ HalfPixel > 0
    /\ pipe.y = ToFloat(600) - pipe.height
    /\ pipe.vy = 0


\* C19: arcade_delta_time returns 0 on its first call, and every call, after
\* any sequence of clock readings (a gap larger than 0.1 s, a clock that goes
\* backwards, a reading of 0), returns a value in [0, 0.1].
C19_DeltaInRange ==
    gcall.fn = "arcade_delta_time" =>
        /\ gcall.calls = 1 => gcall.ret = 0
        /\ gcall.ret \in 0..Tenth

\* A later call found a gap larger than 0.1 s and returned 0.1; last_time
\* follows the clock.
C19_Witness ==
    /\ gcall.fn = "arcade_delta_time"
    /\ gcall.calls > 1
    /\ gcall.before # 0
    /\ gcall.now - gcall.before > Tenth
    /\ gcall.ret = Tenth
    /\ last_time = gcall.now

\* The entry e covers the window pixel (x, y) with a drawn pixel: it is
\* active, the pixel lies in its rectangle and, for an image, on an image
\* pixel whose alpha is above 0.
C21_Covers(e, x, y) ==
    LET s == e.sprite
        sx == x - ToInt(s.x)
        sy == y - ToInt(s.y)
    IN  /\ s.active # 0
        /\ 0 <= sx /\ sx < ToInt(s.width)
        /\ 0 <= sy /\ sy < ToInt(s.height)
        /\ e.type = SPRITE_IMAGE =>
              /\ s.pixels # 0
              /\ sx < s.image_width /\ sy < s.image_height
              /\ Texel(s.pixels, sx, sy) \div (2 ^ 24) > 0

\* The value the entry e shows at the window pixel (x, y) it covers.
C21_Shown(e, x, y) ==
    IF e.type = SPRITE_COLOR THEN e.sprite.color
    ELSE Texel(e.sprite.pixels, x - ToInt(e.sprite.x), y - ToInt(e.sprite.y))

\* The entries of the group that cover the window pixel (x, y).
C21_Covering(x, y) == {k \in 1..group.count : C21_Covers(group.slots[k], x, y)}

\* C21: the entries of a group are painted in insertion order, back to
\* front: after a render every pixel of the buffer holds the value of the
\* last-inserted active entry that covers it with a drawn pixel (its flat
\* colour, or its image pixel of alpha above 0), and the background colour
\* when no entry does; an inactive entry writes nothing.
C21_BackToFront ==
    gcall.fn = "arcade_render_group" =>
        \A x \in 0..(win.width - 1), y \in 0..(win.height - 1) :
            LET ks == C21_Covering(x, y)
                top == CHOOSE k \in ks : \A j \in ks : j <= k
            IN  pixels[y * win.width + x + 1] =
                    IF ks = {} THEN win.bg_color
                    ELSE C21_Shown(group.slots[top], x, y)

\* Rendered: a pixel that both entries cover, with different values, shows
\* the second; a pixel that only the first covers shows the first.
C21_Witness ==
    /\ gcall.fn = "arcade_render_group"
    /\ \E x \in 0..(win.width - 1), y \in 0..(win.height - 1) :
          /\ C21_Covering(x, y) = {1, 2}
          /\ C21_Shown(group.slots[1], x, y) # C21_Shown(group.slots[2], x, y)
          /\ pixels[y * win.width + x + 1] = C21_Shown(group.slots[2], x, y)
    /\ \E x \in 0..(win.width - 1), y \in 0..(win.height - 1) :
          /\ C21_Covering(x, y) = {1}
          /\ pixels[y * win.width + x + 1] = C21_Shown(group.slots[1], x, y)

\* The buffer as the second entry of the group finds it: cleared, and the
\* first entry painted.
C22_Under == ArcadeRenderScene(group.slots, 1, pixels, win)

\* The window pixels on which draw_sprite reads a source pixel of the image
\* entry e, each with that source pixel (sx, sy).
C22_Sources(e) ==
    {[x |-> x, y |-> y, sx |-> x - ToInt(e.sprite.x), sy |-> y - ToInt(e.sprite.y)] :
        x \in {c \in 0..(win.width - 1) :
                  /\ 0 <= c - ToInt(e.sprite.x)
                  /\ c - ToInt(e.sprite.x) < ToInt(e.sprite.width)
                  /\ c - ToInt(e.sprite.x) < e.sprite.image_width},
        y \in {r \in 0..(win.height - 1) :
                  /\ 0 <= r - ToInt(e.sprite.y)
                  /\ r - ToInt(e.sprite.y) < ToInt(e.sprite.height)
                  /\ r - ToInt(e.sprite.y) < e.sprite.image_height}}

\* The second entry is an image sprite that draw_sprite paints.
C22_ImageOnTop ==
    /\ gcall.fn = "arcade_render_group"
    /\ group.count = 2
    /\ group.slots[2].type = SPRITE_IMAGE
    /\ group.slots[2].sprite.active # 0
    /\ group.slots[2].sprite.pixels # 0

C23_Clipped ==
    /\ \A k \in 1..group.count :
          \A v \in Visits(group.slots[k], win) :
              /\ 0 <= v.x /\ v.x < win.width
              /\ 0 <= v.y /\ v.y < win.height
              /\ v.y * win.width + v.x \in 0..(Len(pixels) - 1)
              /\ group.slots[k].type = SPRITE_IMAGE =>
                    /\ 0 <= v.sx /\ v.sx < group.slots[k].sprite.image_width
                    /\ 0 <= v.sy /\ v.sy < group.slots[k].sprite.image_height
    /\ (gcall.fn = "arcade_render_group" /\ group.count = 2) =>
          \A x \in 0..(win.width - 1), y \in 0..(win.height - 1) :
              C21_Covers(group.slots[2], x, y) =>
                  pixels[y * win.width + x + 1] = C21_Shown(group.slots[2], x, y)

\* Rendered: a sprite larger than the window that starts left of it and
\* above it, its part in the window painted up to the far corner.
C23_Witness ==
    /\ gcall.fn = "arcade_render_group"
    /\ group.count = 2
    /\ group.slots[2].type = SPRITE_COLOR
    /\ group.slots[2].sprite.active # 0
    /\ ToInt(group.slots[2].sprite.x) < 0
    /\ ToInt(group.slots[2].sprite.y) < 0
    /\ ToInt(group.slots[2].sprite.x) + ToInt(group.slots[2].sprite.width) > win.width
    /\ pixels[1] = group.slots[2].sprite.color
    /\ pixels[Len(pixels)] = group.slots[2].sprite.color

\* The window pixels the text of the last call covers, and the value the
\* build shows there.
C24_Covered == TextPixels(gcall.text, gcall.x, gcall.y, win)

C24_Ink == IF platform = "win32" THEN ColorRef(gcall.color) ELSE gcall.color

\* The text of the last call lies on top of what the window showed, and a
\* render call shows the group without any text.
C24_OnTopUntilRender ==
    /\ (gcall.fn \in TextFns /\ gcall.drew) =>
          screen = Overlay(gcall.shown, C24_Covered, C24_Ink)
    /\ (gcall.fn \in TextFns /\ ~gcall.drew) =>
          screen = gcall.shown /\ pixels = gcall.before
    /\ gcall.fn = "arcade_render_group" =>
          /\ screen = pixels
          /\ pixels = ArcadeRenderScene(group.slots, group.count, pixels, win)

\* C24 as stated: arcade_render_text and its centered and blinking variants
\* draw onto the presented surface only: they leave the logical pixel
\* buffer unchanged; the text lies on top of what the most recent render
\* call painted and is gone after the next render call.
C24_BufferUnchanged ==
    /\ gcall.fn \in TextFns => pixels = gcall.before
    /\ C24_OnTopUntilRender

\* C24, amended: the text calls draw on top of what the window shows and
\* the text is gone after the next render call.  In the X11 build they
\* leave the logical pixel buffer unchanged; in the Windows build they draw
\* the text into the pixel buffer and copy the buffer to the window.
C24_TextOnTop ==
    /\ (gcall.fn \in TextFns /\ platform = "x11") => pixels = gcall.before
    /\ (gcall.fn \in TextFns /\ platform = "win32" /\ gcall.drew) =>
          /\ pixels = Overlay(gcall.before, C24_Covered, C24_Ink)
          /\ screen = pixels
    /\ C24_OnTopUntilRender

\* A text call has drawn over a pixel of the sprite that the render call
\* had painted.
C24_Witness ==
    /\ gcall.fn \in TextFns
    /\ gcall.drew
    /\ \E i \in C24_Covered :
          /\ gcall.shown[i + 1] = ball.color
          /\ screen[i + 1] = C24_Ink
    /\ \E i \in 1..Len(screen) : (i - 1) \notin C24_Covered /\ screen[i] = ball.color

\* C25: arcade_render_text_centered_blink draws the text in a tick iff
\* global_frame_counter mod (2 * blink_interval) < blink_interval; with the
\* counter growing by 1 per successful arcade_update and one call per tick,
\* the text is drawn in exactly blink_interval of any 2 * blink_interval
\* consecutive ticks (blink_interval >= 1).
C25_EvenDutyCycle ==
    /\ gcall.fn = "arcade_render_text_centered_blink" =>
          (gcall.drew <=>
              global_frame_counter % (2 * blink.interval) < blink.interval)
    /\ \A t \in 1..(Len(blink.drawn) - 2 * blink.interval + 1) :
          Cardinality({u \in t..(t + 2 * blink.interval - 1) : blink.drawn[u]})
              = blink.interval

\* More than a whole period of a blinking text with an interval above 1 has
\* passed, and the last call drew the text.
C25_Witness ==
    /\ gcall.fn = "arcade_render_text_centered_blink"
    /\ blink.interval > 1
    /\ Len(blink.drawn) > 2 * blink.interval
    /\ gcall.drew
    /\ \E t \in 1..Len(blink.drawn) : ~blink.drawn[t]

\* C26: for every W x H pixel grid, rotating by 180 twice returns the
\* original grid; rotating by 90 four times returns the original
\* dimensions and grid; a single rotation by 90 or 270 produces an H x W
\* grid and reads only source coordinates inside the W x H source.
C26_Rotations ==
    /\ (gcall.fn = "arcade_rotate_image" /\ gcall.arg = 180 /\ gcall.n = 2) =>
          image = gcall.orig
    /\ (gcall.fn = "arcade_rotate_image" /\ gcall.arg = 90 /\ gcall.n = 4) =>
          image = gcall.orig
    /\ (gcall.fn = "arcade_rotate_image" /\ gcall.arg \in {90, 270} /\ gcall.n = 1) =>
          /\ image.width = gcall.orig.height
          /\ image.height = gcall.orig.width
          /\ \A x \in 0..(image.width - 1), y \in 0..(image.height - 1) :
                LET s == RotateSource(gcall.orig.width, gcall.orig.height, gcall.arg, x, y)
                IN  /\ 0 <= s.src_x /\ s.src_x < gcall.orig.width
                    /\ 0 <= s.src_y /\ s.src_y < gcall.orig.height

\* The fourth rotation by 90 of an image that is not square and whose
\* pixels all differ: the image is as it was, and the rotation before was
\* not.
C26_Witness ==
    /\ gcall.fn = "arcade_rotate_image"
    /\ gcall.arg = 90
    /\ gcall.n = 4
    /\ image.width > image.height
    /\ image.height > 1
    /\ \A i \in 1..Len(image.data) : image.data[i] = i
    /\ image = gcall.orig
    /\ RotateImage(image, 270) # image

\* C27: for every W x H pixel grid and each axis (flip_type 1 vertical, any
\* other value horizontal), flipping twice on the same axis returns the
\* original grid, and a single flip keeps the dimensions.
C27_Flips ==
    gcall.fn = "arcade_flip_image" =>
        /\ image.width = gcall.orig.width
        /\ image.height = gcall.orig.height
        /\ gcall.n = 2 => image = gcall.orig
        /\ gcall.n = 1 =>
              \A x \in 0..(image.width - 1), y \in 0..(image.height - 1) :
                  image.data[y * image.width + x + 1] =
                      gcall.orig.data[IF gcall.arg = 1
                                      THEN (image.height - 1 - y) * image.width + x + 1
                                      ELSE y * image.width + (image.width - 1 - x) + 1]

\* The second vertical flip of an image of several rows whose pixels all
\* differ: the image is as it was, and one more flip changes it.
C27_Witness ==
    /\ gcall.fn = "arcade_flip_image"
    /\ gcall.arg = 1
    /\ gcall.n = 2
    /\ image.height > 2
    /\ \A i \in 1..Len(image.data) : image.data[i] = i
    /\ image = gcall.orig
    /\ FlipImage(image, 1) # image

\* C28: arcade_free_image_sprite releases the pixel buffer at most once:
\* after a call that released it, pixels = NULL, image_width = 0,
\* image_height = 0 and active = 0; a call on a sprite without pixels (the
\* same sprite again, or one that never loaded) or on a null pointer changes
\* nothing and frees nothing.
C28_ReleasedOnce ==
    /\ \A b \in DOMAIN heap : heap[b] <= 1
    /\ sc.fn = "arcade_free_image_sprite" =>
          IF ~gcall.is_null /\ gcall.before.pixels # 0
          THEN /\ pipe.pixels = 0
               /\ pipe.image_width = 0
               /\ pipe.image_height = 0
               /\ pipe.active = 0
               /\ gcall.heap[gcall.before.pixels] = 0
               /\ heap = [gcall.heap EXCEPT ![gcall.before.pixels] = 1]
          ELSE /\ pipe = gcall.before
               /\ heap = gcall.heap

\* A second call on a sprite whose pixels the first call released.
C28_Witness ==
    /\ sc.fn = "arcade_free_image_sprite"
    /\ gcall.calls = 2
    /\ ~gcall.is_null
    /\ sc.file = "ok"
    /\ gcall.before.pixels = 0
    /\ gcall.before.image_width = 0
    /\ \E b \in DOMAIN heap : heap[b] = 1
    /\ pipe = gcall.before

\* C29: arcade_key_pressed_once reports true only in the tick in which the
\* key went from up to down: it never returns 2 in a tick whose event pump
\* delivered no key-down for that key, whatever the earlier events and
\* queries (ticks in which the key was not queried included).
C29_OnlyInPressTick ==
    (call.fn = "arcade_key_pressed_once" /\ call.ret = 2) => call.key \in hist.downs

\* A query returned 2 for a key that is held since an earlier tick: the
\* pump of this tick delivered no event at all, and arcade_clear_keys was
\* never called.
C29_StaleEdge ==
    /\ call.fn = "arcade_key_pressed_once"
    /\ call.ret = 2
    /\ hist.downs = {}
    /\ call.key \in hist.downSinceClear
    /\ hist.clearTick = 0
    /\ global_frame_counter > 1

\* C30: after a successful arcade_create_animated_sprite the first frame
\* has active = 1 and every other frame has active = 0.
C30_FirstFrameOnly ==
    (sc.fn = "arcade_create_animated_sprite" /\ ~fault /\ player.frames # 0) =>
        /\ player.elems[1].active = 1
        /\ \A i \in 2..player.frame_count : player.elems[i].active = 0

\* A successful call has returned an animation of several frames, all of
\* them active.
C30_AllFramesActive ==
    /\ sc.fn = "arcade_create_animated_sprite"
    /\ ~fault
    /\ player.frames # 0
    /\ player.frame_count > 1
    /\ \A i \in 1..player.frame_count : player.elems[i].active = 1

(***************************************************************************)
(* C36.  For an animation with frame_count >= 1 and frame_interval >= 1,   *)
(* after any sequence of arcade_move_animated_sprite calls (and of the     *)
(* stores the games make between them) 0 <= current_frame < frame_count    *)
(* and 0 <= frame_counter < frame_interval, so that the frame index that   *)
(* move, collision and add-to-group use, frames[current_frame], is inside  *)
(* the frame array.                                                        *)
(***************************************************************************)
C36_FrameIndexInArray ==
    (player.frames # 0 /\ player.frame_count >= 1 /\ player.frame_interval >= 1) =>
        /\ 0 <= player.current_frame /\ player.current_frame < player.frame_count
        /\ 0 <= player.frame_counter /\ player.frame_counter < player.frame_interval
        /\ (player.current_frame + 1) \in DOMAIN player.elems

\* The last frame of the longest animation, one call before it wraps to the
\* first frame.
C36_Witness ==
    /\ sc.fn = "arcade_move_animated_sprite"
    /\ player.frames # 0
    /\ player.frame_count = MaxFrames
    /\ player.frame_interval = MaxInterval
    /\ player.current_frame = MaxFrames - 1
    /\ player.frame_counter = MaxInterval - 1
    /\ sc.active0

(***************************************************************************)
(* C40.  On the empty animation that a failed                              *)
(* arcade_create_animated_sprite returns (frames = NULL, frame_count = 0)  *)
(* the calls of arcade_move_animated_sprite, arcade_add_animated_to_group, *)
(* arcade_check_animated_collision and arcade_free_animated_sprite are     *)
(* safe no-ops: no frame is accessed.                                      *)
(***************************************************************************)
C40_SafeOnEmpty ==
    (player = EmptyAnim /\ "player" \in sc.made /\ sc.array_ok
        /\ sc.fn \in {"arcade_move_animated_sprite", "arcade_free_animated_sprite"})
        => ~fault

\* arcade_move_animated_sprite has read frames[0].active through the null
\* frames pointer of the empty animation.
C40_NullFramesRead ==
    /\ player = EmptyAnim
    /\ "player" \in sc.made
    /\ sc.array_ok
    /\ FirstFailure(sc.files) # 0
    /\ sc.fn = "arcade_move_animated_sprite"
    /\ fault

(***************************************************************************)
(* C37.  Across any sequence of arcade_init (succeeding or failing at any  *)
(* step) and arcade_quit calls, every window system resource is released   *)
(* at most once and never used after its release: no release call is       *)
(* given, or passed, a handle whose resource has been released.  In        *)
(* particular arcade_quit after a failed arcade_init and a second          *)
(* arcade_quit touch no released resource.                                 *)
(***************************************************************************)
C37_NoUseAfterRelease ==
    /\ misuse = {}
    /\ \A i, j \in DOMAIN initCall.rel : initCall.rel[i] = initCall.rel[j] => i = j

\* arcade_quit, called after an arcade_init that failed past its first
\* step, has passed released handles to release calls.
C37_QuitAfterFailedInit ==
    /\ pc = "quit"
    /\ call.fn = "arcade_quit"
    /\ initCall.ret = 1
    /\ initCall.acq # <<>>
    /\ misuse # {}
    /\ \E c \in Range(QuitCalls(platform)) : <<c, Primary(c)>> \in misuse

(***************************************************************************)
(* Flappy Bird (flappybird.c).  The window, the bird and the pipes are     *)
(* scaled down: the window is WindowWidth x MaxHeight pixels, the bird is  *)
(* one pixel wide and high, and the times are counted in a few frames.     *)
(* The variables of main are the fields of `game`; its animation is        *)
(* `player`, its group is `group`.                                         *)
(***************************************************************************)
\* #define MAX_PIPES 6
MAX_PIPES == 6

\* #define PIPE_WIDTH 50.0f, in pixels of the scaled window
PIPE_WIDTH == 1

\* #define PIPE_GAP 135.0f, in pixels of the scaled window
PIPE_GAP == 1

\* #define SPAWN_FRAMES 120, scaled
SPAWN_FRAMES == 1

\* int next_pipe = 60, scaled
FirstSpawn == 1

\* the 10 of `score / 10` in pipe_speed
SpeedStep == 10

\* the ticks of the main loop that are followed
MaxFlappyTicks == 5

\* the keys Flappy Bird reads, and ESC
FlappyKeys == {a_space, a_p, a_r, a_esc}

\* the slots of the key tables these keys have on either build
FlappySlots == {KeySlot(p, k) : p \in Platforms, k \in FlappyKeys}

\* The events of a run in which the player uses the keys `keys`: a press or a
\* release of one of them, or the closing of the window.
FlappyEvents(keys) ==
    [type : {"KeyPress", "KeyRelease"}, sym : keys] \cup {[type |-> "Close", sym |-> 0]}

\* what one call of arcade_update pumps in such a run: nothing, one event, or
\* a release of P and the press that follows it
FlappyQueues(keys) ==
    {<<>>} \cup {<<e>> : e \in FlappyEvents(keys)}
           \cup {<<[type |-> "KeyRelease", sym |-> k], [type |-> "KeyPress", sym |-> k]>> :
                    k \in keys \cap {a_p}}

\* scale = delta_time * 60.0f: 0 (the first call of arcade_delta_time) or a
\* frame at 60 FPS
FlappyScales == {0, ToFloat(1)}

\* float gap_y = 200.0f + (rand() % 150): the gap starts below the top of the
\* window and leaves room for the bottom pipe
GapYs == {ToFloat(g) : g \in 1..(MaxHeight - PIPE_GAP - 1)}

\* the outcomes of loading a pipe image
PipeFiles == {"ok", "decode"}

\* float gravity = 0.2f, float jump_vy = -6.0f, scaled
FlappyGravity == 1
FlappyJumpVy == -ToFloat(1)

\* a * b of two floats
FloatMul(a, b) == (a * b) \div SubPixel

\* Pipe pipes[MAX_PIPES] = {0}
NoPipes == [i \in 1..MAX_PIPES |-> [sprite |-> NoSprite, scored |-> 0]]

\* A variant of add_pipe_pair that leaves the top pipe in the array when the
\* bottom pipe fails to load.
add_pipe_pair_keeps_top(pipes, pipe_count, window_width, window_height, speed, gap_y, top_file, bottom_file, hp) ==
    IF pipe_count >= MAX_PIPES - 1
    THEN [pipes |-> pipes, pipe_count |-> pipe_count, heap |-> hp]
    ELSE LET t == ArcadeCreateImageSprite(window_width, 0, ToFloat(PIPE_WIDTH), gap_y,
                                          top_file, hp)
             b == ArcadeCreateImageSprite(window_width, gap_y + ToFloat(PIPE_GAP),
                                          ToFloat(PIPE_WIDTH),
                                          window_height - gap_y - ToFloat(PIPE_GAP),
                                          bottom_file, t.heap)
             p1 == [pipes EXCEPT ![pipe_count + 1] =
                       [sprite |-> [t.sprite EXCEPT !.vx = speed], scored |-> 0]]
         IN  IF t.sprite.pixels = 0
             THEN [pipes |-> pipes, pipe_count |-> pipe_count, heap |-> t.heap]
             ELSE IF b.sprite.pixels = 0
             THEN [pipes |-> p1, pipe_count |-> pipe_count + 1, heap |-> b.heap]
             ELSE [pipes |-> [p1 EXCEPT ![pipe_count + 2] =
                                [sprite |-> [b.sprite EXCEPT !.vx = speed], scored |-> 0]],
                   pipe_count |-> pipe_count + 2,
                   heap |-> b.heap]

\* add_pipe_pair(pipes, &pipe_count, window_width, window_height, speed), with
\* the value rand() gave gap_y and the outcomes of the two loads: the array,
\* the count and the heap after it.
add_pipe_pair(pipes, pipe_count, window_width, window_height, speed, gap_y, top_file, bottom_file, hp) ==
    IF pipe_count >= MAX_PIPES - 1
    THEN [pipes |-> pipes, pipe_count |-> pipe_count, heap |-> hp]
    ELSE LET t == ArcadeCreateImageSprite(window_width, 0, ToFloat(PIPE_WIDTH), gap_y,
                                          top_file, hp)
             \* pipes[*pipe_count].sprite = top; (*pipe_count)++
             p1 == [pipes EXCEPT ![pipe_count + 1] =
                       [sprite |-> [t.sprite EXCEPT !.vx = speed], scored |-> 0]]
             b == ArcadeCreateImageSprite(window_width, gap_y + ToFloat(PIPE_GAP),
                                          ToFloat(PIPE_WIDTH),
                                          window_height - gap_y - ToFloat(PIPE_GAP),
                                          bottom_file, t.heap)
             \* arcade_free_image_sprite(&pipes[--(*pipe_count)].sprite)
             f == ArcadeFreeImageSprite(p1[pipe_count + 1].sprite, b.heap)
         IN  IF t.sprite.pixels = 0
             THEN [pipes |-> pipes, pipe_count |-> pipe_count, heap |-> t.heap]
             ELSE IF b.sprite.pixels = 0
             THEN [pipes |-> [p1 EXCEPT ![pipe_count + 1].sprite = f.sprite],
                   pipe_count |-> pipe_count,
                   heap |-> f.heap]
             ELSE [pipes |-> [p1 EXCEPT ![pipe_count + 2] =
                                [sprite |-> [b.sprite EXCEPT !.vx = speed], scored |-> 0]],
                   pipe_count |-> pipe_count + 2,
                   heap |-> b.heap]

\* float pipe_speed = -3.0f - (score / 10) * 0.5f, not below -6.0f: a pixel
\* and a half a frame, half a pixel more for every SpeedStep points, at most
\* three pixels
PipeSpeed(score) ==
    LET half == ToFloat(1) \div 2
        pipe_speed == -(ToFloat(1) + half) - (score \div SpeedStep) * half
    IN  IF pipe_speed < -ToFloat(3) THEN -ToFloat(3) ELSE pipe_speed

\* arcade_free_group: both arrays are freed and the counts are zeroed; the
\* pointers are left as they were.
ArcadeFreeGroup(g, hp) ==
    LET h1 == IF g.sprites # 0 THEN Free(hp, g.sprites) ELSE hp
        h2 == IF g.types # 0 THEN Free(h1, g.types) ELSE h1
    IN  [group |-> [g EXCEPT !.count = 0, !.capacity = 0], heap |-> h2]

\* The state main of Flappy Bird works on during one tick:
\*   state, score, high_score, pipe_count, next_pipe, pipes   its variables
\*   player, heap, ks, lks, fault    the animation, the heap, the key tables
\*   spawn    the call of add_pipe_pair of the tick, if any: the outcomes of
\*            its loads, pipe_count and the live blocks before and after
\*            it (read by the properties only)
NoSpawn ==
    [called |-> FALSE, top |-> "none", bottom |-> "none", before |-> 0, after |-> 0,
     live |-> {}, live_after |-> {}]

\* arcade_add_sprite_to_group on r.group; r.full records an add that was
\* made when the group had no room for it.
AddCounted(r, sprite, type) ==
    LET a == ArcadeAddSpriteToGroup(r.group, sprite, type)
    IN  [group |-> a.group,
         fault |-> r.fault \/ a.fault,
         full |-> r.full \/ r.group.count >= r.group.capacity]

\* arcade_add_animated_to_group on r.group: the current frame is added when
\* frame 0 is active.
AddAnimatedCounted(r, anim) ==
    IF anim.frames = 0 THEN [r EXCEPT !.fault = TRUE]
    ELSE IF anim.elems[1].active = 0 THEN r
    ELSE AddCounted(r, anim.elems[anim.current_frame + 1], SPRITE_IMAGE)

\* for (int i = 0; i < pipe_count; i++) arcade_add_sprite_to_group(&group,
\* pipes[i].sprite, SPRITE_IMAGE), from pipe i on
RECURSIVE AddPipes(_, _, _, _)
AddPipes(r, pipes, i, n) ==
    IF i > n THEN r
    ELSE AddPipes(AddCounted(r, pipes[i].sprite, SPRITE_IMAGE), pipes, i + 1, n)

\* group.count = 0 and the adds of a tick: the background, the bird and the
\* pipes
FlappyScene(g, background, anim, pipes, pipe_count) ==
    LET r0 == [group |-> [g EXCEPT !.count = 0], fault |-> FALSE, full |-> FALSE]
        r1 == AddCounted(r0, background, SPRITE_IMAGE)
        r2 == AddAnimatedCounted(r1, anim)
    IN  AddPipes(r2, pipes, 1, pipe_count)

\* An entry of the group whose pixel buffer has been freed.
StaleEntries(g, hp) ==
    {i \in 1..g.count : /\ g.slots[i].type = SPRITE_IMAGE
                        /\ g.slots[i].sprite.pixels # 0
                        /\ hp[g.slots[i].sprite.pixels] # 0}

\* case Start
FlappyStart(m) ==
    LET k == ArcadeKeyPressedOnce(platform, m.ks, m.lks, a_space)
        c == ArcadeClearKeys(m.ks, k.lks)
    IN  IF k.ret = 2
        THEN [m EXCEPT !.ks = c.ks, !.lks = c.lks, !.state = "Playing"]
        ELSE [m EXCEPT !.lks = k.lks]

\* The body of the loop over the pipes in case Playing, from pipe i on: the
\* pipe moves, the pair is scored once it is behind the bird, and a hit ends
\* the game.
RECURSIVE MovePipes(_, _, _)
MovePipes(m, i, pipe_speed) ==
    IF i > m.pipe_count THEN m
    ELSE LET moved == ArcadeMoveImageSprite([m.pipes[i].sprite EXCEPT !.vx = pipe_speed],
                                            0, MaxHeight)
             m1 == [m EXCEPT !.pipes[i].sprite = moved]
             passed == /\ (i - 1) % 2 = 1
                       /\ m1.pipes[i].scored = 0
                       /\ moved.x + ToFloat(PIPE_WIDTH) < m1.player.elems[1].x
             m2 == IF passed
                   THEN [m1 EXCEPT !.score = @ + 1,
                                   !.high_score = IF m1.score + 1 > @ THEN m1.score + 1 ELSE @,
                                   !.pipes[i].scored = 1,
                                   !.pipes[i - 1].scored = 1]
                   ELSE m1
             c == ArcadeCheckAnimatedCollision(FALSE, m2.player, FALSE, moved)
             m3 == IF moved.active # 0 /\ c.ret # 0
                   THEN [m2 EXCEPT !.state = "GameOver", !.player.elems[1].active = 0]
                   ELSE m2
         IN  MovePipes([m3 EXCEPT !.fault = @ \/ (moved.active # 0 /\ c.fault)],
                       i + 1, pipe_speed)

\* The removal of the first pair once it has left the window: both sprites
\* are freed and the array is shifted down by two.
RemoveFirstPair(m) ==
    IF m.pipe_count # 0 /\ m.pipes[1].sprite.x + ToFloat(PIPE_WIDTH) < 0
    THEN LET f0 == ArcadeFreeImageSprite(m.pipes[1].sprite, m.heap)
             f1 == ArcadeFreeImageSprite(m.pipes[2].sprite, f0.heap)
             freed == [m.pipes EXCEPT ![1].sprite = f0.sprite, ![2].sprite = f1.sprite]
         IN  [m EXCEPT !.pipes = [i \in 1..MAX_PIPES |->
                                     IF i <= m.pipe_count - 2 THEN freed[i + 2] ELSE freed[i]],
                       !.pipe_count = @ - 2,
                       !.heap = f1.heap]
    ELSE m

\* if (arcade_key_pressed_once(a_p) == 2) state = Paused
PauseKey(m) ==
    LET k == ArcadeKeyPressedOnce(platform, m.ks, m.lks, a_p)
    IN  [m EXCEPT !.lks = k.lks, !.state = IF k.ret = 2 THEN "Paused" ELSE @]

\* if (arcade_key_pressed_once(a_space) == 2)
\*     player.frames[player.current_frame].vy = jump_vy
JumpKey(m) ==
    LET k == ArcadeKeyPressedOnce(platform, m.ks, m.lks, a_space)
    IN  [m EXCEPT !.lks = k.lks,
                  !.player.elems[m.player.current_frame + 1].vy =
                      IF k.ret = 2 THEN FlappyJumpVy ELSE @]

\* arcade_move_animated_sprite(&player, gravity * scale, window_height)
MoveBird(m, scale) ==
    [m EXCEPT !.player = ArcadeMoveAnimatedSprite(@, FloatMul(FlappyGravity, scale),
                                                  MaxHeight)]

\* if (player.frames[0].y + player.frames[0].height >= window_height)
GroundCheck(m) ==
    IF m.player.elems[1].y + m.player.elems[1].height >= ToFloat(MaxHeight)
    THEN [m EXCEPT !.state = "GameOver", !.player.elems[1].active = 0]
    ELSE m

\* next_pipe -= scale, an int less a float
CountDown(next_pipe, scale) == ToInt(ToFloat(next_pipe) - scale)

\* next_pipe -= scale; if (next_pipe <= 0) { add_pipe_pair(...); next_pipe =
\* SPAWN_FRAMES; }
SpawnPipes(m, scale, pipe_speed, gap_y, top_file, bottom_file) ==
    LET a == add_pipe_pair(m.pipes, m.pipe_count, ToFloat(WindowWidth),
                           ToFloat(MaxHeight), pipe_speed, gap_y, top_file, bottom_file,
                           m.heap)
    IN  IF CountDown(m.next_pipe, scale) <= 0
        THEN [m EXCEPT !.pipes = a.pipes, !.pipe_count = a.pipe_count,
                       !.heap = a.heap, !.next_pipe = SPAWN_FRAMES,
                       !.spawn = [called |-> TRUE, top |-> top_file,
                                  bottom |-> bottom_file,
                                  before |-> m.pipe_count,
                                  after |-> a.pipe_count,
                                  live |-> Live(m.heap),
                                  live_after |-> Live(a.heap)]]
        ELSE [m EXCEPT !.next_pipe = CountDown(m.next_pipe, scale)]

\* case Playing, with the scale of the tick and, for a spawn, the value of
\* rand() and the outcomes of the two loads
FlappyPlaying(m, scale, gap_y, top_file, bottom_file) ==
    RemoveFirstPair(
        SpawnPipes(
            GroundCheck(MovePipes(MoveBird(JumpKey(PauseKey(m)), scale), 1,
                                  PipeSpeed(m.score))),
            scale, PipeSpeed(m.score), gap_y, top_file, bottom_file))

\* A variant of case Paused that leaves the state whenever P is down.
FlappyPausedWhileDown(m) ==
    [m EXCEPT !.lks = ArcadeKeyPressedOnce(platform, m.ks, m.lks, a_p).lks,
              !.state = IF ArcadeKeyPressed(platform, m.ks, a_p) = 2 THEN "Playing" ELSE @]

\* case Paused
FlappyPaused(m) ==
    LET k == ArcadeKeyPressedOnce(platform, m.ks, m.lks, a_p)
    IN  [m EXCEPT !.lks = k.lks,
                  !.state = IF k.ret = 2 THEN "Playing" ELSE @]

\* A variant of FreePipes that frees no pipe.
FreePipesNone(pipes, i, n, hp) == [pipes |-> pipes, heap |-> hp]

\* for (int i = 0; i < pipe_count; i++) arcade_free_image_sprite(&pipes[i].sprite),
\* from pipe i on
RECURSIVE FreePipes(_, _, _, _)
FreePipes(pipes, i, n, hp) ==
    IF i > n THEN [pipes |-> pipes, heap |-> hp]
    ELSE LET f == ArcadeFreeImageSprite(pipes[i].sprite, hp)
         IN  FreePipes([pipes EXCEPT ![i].sprite = f.sprite], i + 1, n, f.heap)

\* where the bird starts: player = arcade_create_animated_sprite(100.0f, 300.0f, ...)
BirdX == 0
BirdY == ToFloat(1)

\* case GameOver
FlappyGameOver(m) ==
    LET k == ArcadeKeyPressedOnce(platform, m.ks, m.lks, a_r)
        c == ArcadeClearKeys(m.ks, k.lks)
        elems == [i \in 1..m.player.frame_count |->
                     IF i = 1
                     THEN [m.player.elems[i] EXCEPT !.x = BirdX, !.y = BirdY, !.vy = 0,
                                                    !.active = 1]
                     ELSE [m.player.elems[i] EXCEPT !.x = BirdX, !.y = BirdY, !.vy = 0]]
        f == FreePipes(m.pipes, 1, m.pipe_count, m.heap)
    IN  IF k.ret = 2
        THEN [m EXCEPT !.ks = c.ks, !.lks = c.lks,
                       !.player = [@ EXCEPT !.elems = elems, !.current_frame = 0,
                                            !.frame_counter = 0],
                       !.pipes = f.pipes, !.heap = f.heap, !.pipe_count = 0,
                       !.score = 0, !.next_pipe = FirstSpawn, !.state = "Playing"]
        ELSE [m EXCEPT !.lks = k.lks]

\* switch (state)
FlappySwitch(m, scale, gap_y, top_file, bottom_file) ==
    CASE m.state = "Start" -> FlappyStart(m)
      [] m.state = "Playing" -> FlappyPlaying(m, scale, gap_y, top_file, bottom_file)
      [] m.state = "Paused" -> FlappyPaused(m)
      [] OTHER -> FlappyGameOver(m)

\* 0xFFFFFF, the colour of the texts
White == 16777215

\* The texts of a tick: the score, then the texts of the case of `state`.
\* A text is given by its width in pixels.
FlappyTexts(state, gfc, px, scr) ==
    LET t0 == ArcadeRenderText(platform, Font, 1, 0, 0, White, px, scr, win)
    IN  CASE state = "Start" ->
               LET t1 == ArcadeRenderTextCenteredBlink(platform, Font, 1, ToFloat(1), White,
                                                       1, gfc, t0.pixels, t0.screen, win)
               IN  ArcadeRenderTextCentered(platform, Font, 1, ToFloat(2), White,
                                            t1.pixels, t1.screen, win)
          [] state = "Playing" -> t0
          [] OTHER -> ArcadeRenderTextCentered(platform, Font, 1, ToFloat(1), White,
                                               t0.pixels, t0.screen, win)

\* The program at the head of its main loop: the background and the bird
\* are loaded, the group is allocated and arcade_init has returned 0.
FlappyInit ==
    /\ platform \in Platforms
    /\ queue = <<>>
    /\ global_frame_counter = 0
    /\ pc = "cond"
    /\ call = NoCall
    /\ hist = HistInit
    /\ LET r == ArcadeInit(platform, WindowWidth, MaxHeight, 47083, "none", NoResources)
       IN  /\ running = r.running
           /\ handles = r.handles
           /\ win = r.win
           /\ pixels = r.pixels
           /\ held = r.held
           /\ initCall = [ret |-> r.ret, acq |-> r.acq, rel |-> r.rel]
           /\ misuse = r.misuse
    /\ LET b == ArcadeCreateImageSprite(0, 0, ToFloat(WindowWidth), ToFloat(MaxHeight),
                                        "ok", <<>>)
           a == ArcadeCreateAnimatedSprite(BirdX, BirdY, ToFloat(1), ToFloat(1),
                                           <<"ok", "ok", "ok">>, MaxInterval, TRUE, b.heap)
           g == ArcadeInitGroup(MAX_PIPES + 2, TRUE, TRUE, a.heap)
       IN  /\ player = a.anim
           /\ group = g.group
           /\ heap = g.heap
           /\ fault = FALSE
           /\ game = [name |-> "flappy", state |-> "Start", score |-> 0, high_score |-> 0,
                      pipe_count |-> 0, next_pipe |-> FirstSpawn, pipes |-> NoPipes,
                      background |-> b.sprite, ticks |-> 0,
                      esc |-> FALSE, late |-> FALSE, full |-> FALSE, stale |-> FALSE,
                      spawn |-> NoSpawn, p_seq |-> "none", was |-> "none"]
    /\ key_states = [s \in FlappySlots |-> 0]
    /\ last_key_states = [s \in FlappySlots |-> 0]
    /\ pipe = NoSprite
    /\ sc = NoSpriteCall
    /\ paddle = NoColorSprite
    /\ ball = NoColorSprite
    /\ last_time = 0
    /\ screen = <<>>
    /\ blink = NoBlink
    /\ image = NoImage
    /\ gcall = NoSceneCall

\* What the P events of a pump make of game.p_seq: "held" from the tick that
\* entered Paused, "up" once a release of P has been pumped, "again" once a
\* press of P has been pumped after it.
RECURSIVE PSeq(_, _)
PSeq(q, s) ==
    IF q = <<>> THEN s
    ELSE LET e == Head(q)
         IN  PSeq(Tail(q),
                  IF e.sym # a_p THEN s
                  ELSE IF e.type = "KeyRelease" /\ s \in {"held", "again"} THEN "up"
                  ELSE IF e.type = "KeyPress" /\ s = "up" THEN "again"
                  ELSE s)

\* One turn of `while (arcade_running() && arcade_update()) { ... }`: the
\* events q are pumped, and unless the window was closed the body runs with
\* the scale of the tick, the value of rand() and the outcomes of the loads
\* of a spawn.
FlappyTick(q, scale, gap_y, top_file, bottom_file) ==
    /\ game.name = "flappy"
    /\ pc = "cond"
    /\ game.ticks < MaxFlappyTicks \/ q = <<[type |-> "Close", sym |-> 0]>>
    /\ LET u == ArcadeUpdate(platform, q, key_states, running, global_frame_counter)
       IN  IF ArcadeRunning(running) = 0
           THEN /\ pc' = "exited"
                /\ UNCHANGED <<key_states, last_key_states, running, global_frame_counter,
                               player, heap, fault, group, pixels, screen, game>>
           ELSE IF u.ret = 0
           THEN /\ pc' = "exited"
                /\ key_states' = u.ks
                /\ running' = u.running
                /\ global_frame_counter' = u.gfc
                /\ UNCHANGED <<last_key_states, player, heap, fault, group, pixels,
                               screen, game>>
           ELSE \E scene \in {FlappyScene(group, game.background, player, game.pipes,
                                           game.pipe_count)} :
                LET drawn == ArcadeRenderGroup(scene.group, pixels, win)
                    texts == FlappyTexts(game.state, u.gfc, drawn, drawn)
                    m == [state |-> game.state, score |-> game.score,
                          high_score |-> game.high_score, pipe_count |-> game.pipe_count,
                          next_pipe |-> game.next_pipe, pipes |-> game.pipes,
                          player |-> player, heap |-> heap, ks |-> u.ks,
                          lks |-> last_key_states, fault |-> fault \/ scene.fault,
                          spawn |-> NoSpawn]
                IN  \E n \in {FlappySwitch(m, scale, gap_y, top_file, bottom_file)} :
                    /\ pc' = "cond"
                    /\ key_states' = n.ks
                    /\ last_key_states' = n.lks
                    /\ running' = u.running
                    /\ global_frame_counter' = u.gfc
                    /\ player' = n.player
                    /\ heap' = n.heap
                    /\ fault' = n.fault
                    /\ group' = scene.group
                    /\ pixels' = texts.pixels
                    /\ screen' = texts.screen
                    /\ game' = [game EXCEPT
                          !.state = n.state, !.score = n.score,
                          !.high_score = n.high_score, !.pipe_count = n.pipe_count,
                          !.next_pipe = n.next_pipe, !.pipes = n.pipes,
                          !.ticks = @ + 1,
                          !.was = game.state,
                          !.esc = @ \/ KeySlot(platform, a_esc) \in u.downs,
                          !.late = @ \/ game.esc,
                          !.full = @ \/ scene.full,
                          !.stale = @ \/ StaleEntries(scene.group, heap) # {},
                          !.spawn = n.spawn,
                          !.p_seq = IF game.state = "Paused" THEN PSeq(q, @)
                                    ELSE IF n.state = "Paused" THEN "held"
                                    ELSE "none"]
    /\ UNCHANGED <<platform, queue, call, hist, handles, win, held, initCall, misuse,
                   pipe, sc, paddle, ball, last_time, blink, image, gcall>>

\* After the loop: the sprites that are left and the group are freed and
\* arcade_quit is called.
FlappyCleanup ==
    /\ game.name = "flappy"
    /\ pc = "exited"
    /\ LET b == ArcadeFreeImageSprite(game.background, heap)
           a == ArcadeFreeAnimatedSprite(player, b.heap)
           f == FreePipes(game.pipes, 1, game.pipe_count, a.heap)
           g == ArcadeFreeGroup(group, f.heap)
           r == ArcadeQuit(platform, [NoResources EXCEPT !.handles = handles,
                                                         !.held = held,
                                                         !.misuse = misuse])
       IN  /\ player' = a.anim
           /\ heap' = g.heap
           /\ group' = g.group
           /\ game' = [game EXCEPT !.background = b.sprite, !.pipes = f.pipes]
           /\ handles' = r.handles
           /\ held' = r.held
           /\ misuse' = r.misuse
    /\ pixels' = <<>>
    /\ pc' = "quit"
    /\ UNCHANGED <<platform, queue, key_states, last_key_states, running,
                   global_frame_counter, call, hist, win, initCall,
                   pipe, fault, sc, paddle, ball, last_time, screen, blink, image, gcall>>

\* rand() and the two loads are read by a tick that calls add_pipe_pair with
\* room for a pair only: the values they can give to such a tick.
SpawnInputs(scale) ==
    IF /\ game.state = "Playing"
       /\ CountDown(game.next_pipe, scale) <= 0
       /\ game.pipe_count < MAX_PIPES - 1
    THEN [gap_y : GapYs, top : PipeFiles, bottom : PipeFiles]
    ELSE {[gap_y |-> ToFloat(1), top |-> "ok", bottom |-> "ok"]}

\* a turn of the loop in a run in which the player uses the keys `keys`
FlappyTicks(keys) ==
    \E q \in FlappyQueues(keys), scale \in FlappyScales :
        \E i \in SpawnInputs(scale) : FlappyTick(q, scale, i.gap_y, i.top, i.bottom)

\* the player starts, flaps and restarts
FlappyNext ==
    \/ FlappyTicks({a_space, a_r})
    \/ FlappyCleanup

\* the player starts and pauses
PauseNext ==
    \/ FlappyTicks({a_space, a_p})
    \/ FlappyCleanup

\* the player starts and presses ESC
EscNext ==
    \/ FlappyTicks({a_space, a_esc})
    \/ FlappyCleanup

SpecFlappy == FlappyInit /\ [][FlappyNext]_vars

SpecPause == FlappyInit /\ [][PauseNext]_vars

SpecEsc == FlappyInit /\ [][EscNext]_vars

(***************************************************************************)
(* Properties of Flappy Bird.                                              *)
(***************************************************************************)
\* The pipes main holds: pipes[0 .. pipe_count - 1]
HeldPipes == {game.pipes[i].sprite : i \in 1..game.pipe_count}

\* C32: add_pipe_pair keeps the pairs intact.  pipe_count is even and at most
\* MAX_PIPES at all times; pipes[2k] and pipes[2k+1] are the top and the
\* bottom of one pair (the top starts at y = 0, the bottom PIPE_GAP below the
\* end of the top and ends at the bottom of the window, both at the same x,
\* each with a pixel buffer of its own until the cleanup); a call that has room adds both when
\* both loads succeed, and when either load fails it adds neither and leaves
\* no block live that was not live before it, so the buffer of a loaded top
\* has been freed.
C32_PairsIntact ==
    game.name = "flappy" =>
        /\ game.pipe_count % 2 = 0
        /\ game.pipe_count \in 0..MAX_PIPES
        /\ \A k \in 1..(game.pipe_count \div 2) :
              LET top == game.pipes[2 * k - 1].sprite
                  bottom == game.pipes[2 * k].sprite
              IN  /\ top.y = 0
                  /\ bottom.y = top.height + ToFloat(PIPE_GAP)
                  /\ bottom.y + bottom.height = ToFloat(MaxHeight)
                  /\ top.x = bottom.x
                  /\ pc # "quit" => /\ top.pixels # 0
                                    /\ bottom.pixels # 0
                                    /\ top.pixels # bottom.pixels
        /\ (game.spawn.called /\ game.spawn.before < MAX_PIPES - 1) =>
              IF game.spawn.top = "ok" /\ game.spawn.bottom = "ok"
              THEN game.spawn.after = game.spawn.before + 2
              ELSE /\ game.spawn.after = game.spawn.before
                   /\ game.spawn.live_after = game.spawn.live

\* A bottom pipe failed to load after its top had been loaded, next to a pair
\* that was already there.
C32_Witness ==
    /\ game.name = "flappy"
    /\ game.spawn.called
    /\ game.spawn.top = "ok"
    /\ game.spawn.bottom = "decode"
    /\ game.spawn.before >= 2
    /\ game.spawn.after = game.spawn.before
    /\ Len(heap) > Cardinality(game.spawn.live)
    /\ game.pipe_count >= 2

\* C38: every pixel buffer of a pipe is freed exactly once by the time the
\* program exits, and no entry of the group that was rendered had a freed
\* buffer.  No block of the heap is freed twice, in the loop the pipes main
\* holds have live buffers of their own, and after the cleanup every block
\* has been freed once.
C38_PipeBuffers ==
    game.name = "flappy" =>
        /\ \A b \in DOMAIN heap : heap[b] <= 1
        /\ ~game.stale
        /\ pc # "quit" =>
              \A i \in 1..game.pipe_count :
                  /\ game.pipes[i].sprite.pixels # 0
                  /\ heap[game.pipes[i].sprite.pixels] = 0
                  /\ \A j \in 1..game.pipe_count :
                        game.pipes[i].sprite.pixels = game.pipes[j].sprite.pixels => i = j
        /\ pc = "quit" => \A b \in DOMAIN heap : heap[b] = 1

\* The program has exited after a pair left the window and was removed, with
\* pipes still in the array when the loop ended.
C38_Witness ==
    /\ game.name = "flappy"
    /\ pc = "quit"
    /\ game.score >= 1
    /\ game.pipe_count >= 2
    /\ \A b \in DOMAIN heap : heap[b] = 1

\* C33: in the Paused state nothing moves or spawns.  A tick that begins in
\* Paused leaves the bird (position, velocity, animation frame), the pipes,
\* pipe_count, the score and the spawn countdown as they were; it ends in
\* Paused or in Playing, and in Playing only when P is down after a release
\* of P and a press of P that were pumped since Paused was entered, so the
\* press that entered Paused does not leave it while P stays held.
C33_PausedFrozen ==
    [][(game.name = "flappy" /\ game.state = "Paused" /\ pc = "cond" /\ pc' = "cond") =>
          /\ player' = player
          /\ game'.pipes = game.pipes
          /\ game'.pipe_count = game.pipe_count
          /\ game'.score = game.score
          /\ game'.next_pipe = game.next_pipe
          /\ game'.state \in {"Paused", "Playing"}
          /\ game'.state = "Playing" =>
                /\ game'.p_seq = "again"
                /\ key_states'[KeySlot(platform, a_p)] = 1]_vars

\* The game was paused with a pair of pipes on its way and has gone on.
C33_Witness ==
    /\ game.name = "flappy"
    /\ game.was = "Paused"
    /\ game.state = "Playing"
    /\ game.p_seq = "again"
    /\ game.pipe_count >= 2
    /\ player.elems[1].active = 1

\* C31: pressing ESC ends the main loop after at most the tick that pumped
\* the press: the body of the loop does not run in a later tick.
C31_EscEndsLoop == game.name = "flappy" => ~game.late

\* The body of the loop of Flappy Bird has run in a tick after the one that
\* pumped a press of ESC, and the loop goes on.
C31_EscIgnored ==
    /\ game.name = "flappy"
    /\ game.late
    /\ key_states[KeySlot(platform, a_esc)] = 1
    /\ running = 1
    /\ pc = "cond"
    /\ game.state = "Playing"

(***************************************************************************)
(* Asteroids (part_002, the second program of the file): main and its      *)
(* loop.  The window is WindowWidth x MaxHeight pixels, the ship, the      *)
(* bullet and the asteroids are squares of one pixel, and the ship sits on *)
(* the last row.                                                           *)
(***************************************************************************)
MAX_ASTEROIDS == 2
MaxAsteroidTicks == 5

\* float player_speed, bullet_speed, asteroid_speed, asteroid_speed_max,
\* asteroid_speed_inc, scaled
ShipSpeed == ToFloat(1)
BulletSpeed == ToFloat(2)
AsteroidSpeed == ToFloat(1)
AsteroidSpeedMax == ToFloat(2)
AsteroidSpeedInc == 1

\* 0xFF0000, 0xFFFF00, 0x808080: the colours of the ship, the bullet and the
\* asteroids
Red == 16711680
Yellow == 16776960
Gray == 8421504

AsteroidKeys == {a_space, a_left, a_right, a_r}
AsteroidSlots == {KeySlot(p, k) : p \in Platforms, k \in AsteroidKeys}

\* rand() % (WINDOW_WIDTH - 30) + 15: the x of a spawned asteroid
SpawnXs == {ToFloat(x) : x \in 0..(WindowWidth - 1)}

\* What rand() gives to the spawn test of one asteroid: NoRock when
\* `rand() % 100 < 2` is false, else the x of the new asteroid.
NoRock == -1
Rocks == {NoRock} \cup SpawnXs

\* ArcadeSprite player = { ... }
ShipInit ==
    [x |-> 0, y |-> ToFloat(MaxHeight - 1), width |-> ToFloat(1), height |-> ToFloat(1),
     vy |-> 0, vx |-> 0, color |-> Red, active |-> 1]

\* ArcadeSprite bullet = { ... }
BulletInit ==
    [x |-> ShipInit.x, y |-> ShipInit.y, width |-> ToFloat(1), height |-> ToFloat(1),
     vy |-> 0, vx |-> 0, color |-> Yellow, active |-> 0]

\* An asteroid as main's initialisation and the restart leave it: inactive,
\* above the window; x and y are values of rand() that the spawn overwrites
\* before anything reads them.
RockInit(speed) ==
    [sprite |-> [x |-> 0, y |-> -ToFloat(MaxHeight), width |-> ToFloat(1),
                 height |-> ToFloat(1), vy |-> speed, vx |-> 0, color |-> Gray,
                 active |-> 0]]

\* The group of a tick: the ship, the bullet and the asteroids that are
\* active, in this order.  `full` tells whether an add found the group full.
RECURSIVE AddRocks(_, _, _)
AddRocks(r, asteroids, i) ==
    IF i > MAX_ASTEROIDS THEN r
    ELSE AddRocks(IF asteroids[i].sprite.active # 0
                  THEN AddCounted(r, asteroids[i].sprite, SPRITE_COLOR)
                  ELSE r,
                  asteroids, i + 1)

AsteroidScene(g, ship, bullet, asteroids) ==
    LET r0 == [group |-> [g EXCEPT !.count = 0], fault |-> FALSE, full |-> FALSE]
        r1 == IF ship.active # 0 THEN AddCounted(r0, ship, SPRITE_COLOR) ELSE r0
        r2 == IF bullet.active # 0 THEN AddCounted(r1, bullet, SPRITE_COLOR) ELSE r1
    IN  AddRocks(r2, asteroids, 1)

\* the asteroids among the entries of a group
RocksIn(g) == {i \in 1..g.count : g.slots[i].sprite.color = Gray}

\* case Start
AsteroidStart(m) ==
    LET k == ArcadeKeyPressedOnce(platform, m.ks, m.lks, a_space)
        c == ArcadeClearKeys(m.ks, k.lks)
    IN  IF k.ret = 2
        THEN [m EXCEPT !.ks = c.ks, !.lks = c.lks, !.state = "Playing"]
        ELSE [m EXCEPT !.lks = k.lks]

\* case Playing: the ship follows the arrow keys and stays in the window
MoveShip(m, scale) ==
    LET vx == IF ArcadeKeyPressed(platform, m.ks, a_right) = 2 /\ m.player.active # 0
              THEN ShipSpeed
              ELSE IF ArcadeKeyPressed(platform, m.ks, a_left) = 2 /\ m.player.active # 0
              THEN -ShipSpeed
              ELSE 0
        x == m.player.x + FloatMul(vx, scale)
        s == [m.player EXCEPT !.vx = vx]
    IN  [m EXCEPT !.player =
            IF s.active = 0 THEN s
            ELSE IF x < 0 THEN [s EXCEPT !.x = 0]
            ELSE IF x + s.width > ToFloat(WindowWidth)
            THEN [s EXCEPT !.x = ToFloat(WindowWidth) - s.width]
            ELSE [s EXCEPT !.x = x]]

\* case Playing: Space fires the bullet when none is in flight
Shoot(m) ==
    LET k == ArcadeKeyPressedOnce(platform, m.ks, m.lks, a_space)
    IN  IF k.ret = 2 /\ m.player.active # 0 /\ m.bullet.active = 0
        THEN [m EXCEPT !.lks = k.lks,
                       !.bullet = [@ EXCEPT
                           !.x = m.player.x + (m.player.width \div 2)
                                             - (m.bullet.width \div 2),
                           !.y = m.player.y,
                           !.vy = -BulletSpeed,
                           !.active = 1]]
        ELSE [m EXCEPT !.lks = k.lks]

\* case Playing: the bullet moves and leaves at the top
MoveBullet(m, scale) ==
    IF m.bullet.active = 0 THEN m
    ELSE LET y == m.bullet.y + FloatMul(m.bullet.vy, scale)
         IN  [m EXCEPT !.bullet = [@ EXCEPT !.y = y,
                                            !.active = IF y < 0 THEN 0 ELSE @]]

\* case Playing: the loop that spawns and moves the asteroids, from
\* asteroid i on; rocks[i] is what rand() gives to asteroid i
RECURSIVE MoveRocks(_, _, _, _)
MoveRocks(m, i, scale, rocks) ==
    IF i > MAX_ASTEROIDS THEN m
    ELSE LET a == m.asteroids[i].sprite
             s == IF a.active = 0 /\ rocks[i] # NoRock
                  THEN [a EXCEPT !.x = rocks[i], !.y = -a.height,
                                 !.vy = m.asteroid_speed, !.active = 1]
                  ELSE a
             y == s.y + FloatMul(s.vy, scale)
             t == IF s.active = 0 THEN s
                  ELSE [s EXCEPT !.y = y,
                                 !.active = IF y > ToFloat(MaxHeight) THEN 0 ELSE @]
         IN  MoveRocks([m EXCEPT !.asteroids[i].sprite = t], i + 1, scale, rocks)

\* case Playing: the first asteroid the bullet hits is destroyed with it
RECURSIVE BulletHits(_, _)
BulletHits(m, i) ==
    IF i > MAX_ASTEROIDS THEN m
    ELSE IF ArcadeCheckCollision(FALSE, m.bullet, FALSE, m.asteroids[i].sprite) # 0
    THEN LET score == m.score + 1
             speed == m.asteroid_speed + AsteroidSpeedInc
         IN  [m EXCEPT !.asteroids[i].sprite.active = 0,
                       !.bullet.active = 0,
                       !.score = score,
                       !.high_score = IF score > @ THEN score ELSE @,
                       !.asteroid_speed = IF speed > AsteroidSpeedMax
                                          THEN AsteroidSpeedMax ELSE speed]
    ELSE BulletHits(m, i + 1)

\* case Playing: an asteroid that hits the ship ends the game
RECURSIVE ShipHits(_, _)
ShipHits(m, i) ==
    IF i > MAX_ASTEROIDS THEN m
    ELSE IF ArcadeCheckCollision(FALSE, m.player, FALSE, m.asteroids[i].sprite) # 0
    THEN [m EXCEPT !.player.active = 0, !.state = "GameOver"]
    ELSE ShipHits(m, i + 1)

\* case Playing
AsteroidPlaying(m, scale, rocks) ==
    LET m1 == MoveRocks(MoveBullet(Shoot(MoveShip(m, scale)), scale), 1, scale, rocks)
        m2 == IF m1.bullet.active # 0 THEN BulletHits(m1, 1) ELSE m1
    IN  ShipHits(m2, 1)

\* case GameOver: the asteroids are deactivated, and R restarts
AsteroidGameOver(m) ==
    LET off == [m EXCEPT !.asteroids =
                    [i \in 1..MAX_ASTEROIDS |-> [@[i] EXCEPT !.sprite.active = 0]]]
        k == ArcadeKeyPressedOnce(platform, off.ks, off.lks, a_r)
        c == ArcadeClearKeys(off.ks, k.lks)
    IN  IF k.ret = 2
        THEN [off EXCEPT !.ks = c.ks, !.lks = c.lks,
                         !.player = ShipInit,
                         !.bullet = [@ EXCEPT !.active = 0, !.vy = 0],
                         !.asteroids = [i \in 1..MAX_ASTEROIDS |->
                                           [@[i] EXCEPT !.sprite.x = 0,
                                                        !.sprite.y = -ToFloat(MaxHeight),
                                                        !.sprite.vy = off.asteroid_speed,
                                                        !.sprite.active = 0]],
                         !.score = 0,
                         !.asteroid_speed = AsteroidSpeed,
                         !.state = "Playing"]
        ELSE [off EXCEPT !.lks = k.lks]

\* switch (state)
AsteroidSwitch(m, scale, rocks) ==
    CASE m.state = "Start" -> AsteroidStart(m)
      [] m.state = "Playing" -> AsteroidPlaying(m, scale, rocks)
      [] OTHER -> AsteroidGameOver(m)

\* The texts of a tick: the score, then the texts of the case of `state`.
AsteroidTexts(state, gfc, px, scr) ==
    LET t0 == ArcadeRenderText(platform, Font, 1, 0, 0, White, px, scr, win)
    IN  CASE state = "Start" ->
               LET t1 == ArcadeRenderTextCenteredBlink(platform, Font, 1, ToFloat(1), White,
                                                       1, gfc, t0.pixels, t0.screen, win)
               IN  ArcadeRenderTextCentered(platform, Font, 1, ToFloat(2), White,
                                            t1.pixels, t1.screen, win)
          [] state = "Playing" -> t0
          [] OTHER ->
               LET t1 == ArcadeRenderTextCentered(platform, Font, 1, 0, White,
                                                  t0.pixels, t0.screen, win)
                   t2 == ArcadeRenderTextCentered(platform, Font, 1, ToFloat(1), White,
                                                  t1.pixels, t1.screen, win)
               IN  ArcadeRenderTextCentered(platform, Font, 1, ToFloat(2), White,
                                            t2.pixels, t2.screen, win)

\* The program at the head of its main loop: the sprites are initialised, the
\* group is allocated and arcade_init has returned 0.
AsteroidInit ==
    /\ platform \in Platforms
    /\ queue = <<>>
    /\ global_frame_counter = 0
    /\ pc = "cond"
    /\ call = NoCall
    /\ hist = HistInit
    /\ LET r == ArcadeInit(platform, WindowWidth, MaxHeight, 0, "none", NoResources)
       IN  /\ running = r.running
           /\ handles = r.handles
           /\ win = r.win
           /\ pixels = r.pixels
           /\ held = r.held
           /\ initCall = [ret |-> r.ret, acq |-> r.acq, rel |-> r.rel]
           /\ misuse = r.misuse
    /\ LET g == ArcadeInitGroup(MAX_ASTEROIDS + 2, TRUE, TRUE, <<>>)
       IN  /\ group = g.group
           /\ heap = g.heap
    /\ fault = FALSE
    /\ game = [name |-> "asteroids", state |-> "Start", score |-> 0, high_score |-> 0,
               asteroid_speed |-> AsteroidSpeed, player |-> ShipInit,
               bullet |-> BulletInit,
               asteroids |-> [i \in 1..MAX_ASTEROIDS |-> RockInit(AsteroidSpeed)],
               ticks |-> 0, was |-> "none", shown |-> 0, full |-> FALSE]
    /\ key_states = [s \in AsteroidSlots |-> 0]
    /\ last_key_states = [s \in AsteroidSlots |-> 0]
    /\ player = EmptyAnim
    /\ pipe = NoSprite
    /\ sc = NoSpriteCall
    /\ paddle = NoColorSprite
    /\ ball = NoColorSprite
    /\ last_time = 0
    /\ screen = <<>>
    /\ blink = NoBlink
    /\ image = NoImage
    /\ gcall = NoSceneCall

\* One turn of `while (arcade_running() && arcade_update()) { ... }`: the
\* events q are pumped, and unless the window was closed the body runs: the
\* group is rebuilt and rendered, then the case of `state` runs with the
\* scale of the tick and the values of rand().
AsteroidTick(q, scale, rocks) ==
    /\ game.name = "asteroids"
    /\ pc = "cond"
    /\ game.ticks < MaxAsteroidTicks \/ q = <<[type |-> "Close", sym |-> 0]>>
    /\ LET u == ArcadeUpdate(platform, q, key_states, running, global_frame_counter)
       IN  IF ArcadeRunning(running) = 0
           THEN /\ pc' = "exited"
                /\ UNCHANGED <<key_states, last_key_states, running, global_frame_counter,
                               fault, group, pixels, screen, game>>
           ELSE IF u.ret = 0
           THEN /\ pc' = "exited"
                /\ key_states' = u.ks
                /\ running' = u.running
                /\ global_frame_counter' = u.gfc
                /\ UNCHANGED <<last_key_states, fault, group, pixels, screen, game>>
           ELSE \E scene \in {AsteroidScene(group, game.player, game.bullet,
                                             game.asteroids)} :
                LET drawn == ArcadeRenderGroup(scene.group, pixels, win)
                    texts == AsteroidTexts(game.state, u.gfc, drawn, drawn)
                    m == [state |-> game.state, score |-> game.score,
                          high_score |-> game.high_score,
                          asteroid_speed |-> game.asteroid_speed,
                          player |-> game.player, bullet |-> game.bullet,
                          asteroids |-> game.asteroids, ks |-> u.ks,
                          lks |-> last_key_states]
                IN  \E n \in {AsteroidSwitch(m, scale, rocks)} :
                    /\ pc' = "cond"
                    /\ key_states' = n.ks
                    /\ last_key_states' = n.lks
                    /\ running' = u.running
                    /\ global_frame_counter' = u.gfc
                    /\ fault' = (fault \/ scene.fault)
                    /\ group' = scene.group
                    /\ pixels' = texts.pixels
                    /\ screen' = texts.screen
                    /\ game' = [game EXCEPT
                          !.state = n.state, !.score = n.score,
                          !.high_score = n.high_score,
                          !.asteroid_speed = n.asteroid_speed,
                          !.player = n.player, !.bullet = n.bullet,
                          !.asteroids = n.asteroids,
                          !.ticks = @ + 1,
                          !.was = game.state,
                          !.shown = Cardinality(RocksIn(scene.group)),
                          !.full = @ \/ scene.full]
    /\ UNCHANGED <<platform, queue, call, hist, handles, win, held, initCall, misuse,
                   player, heap, pipe, sc, paddle, ball, last_time, blink, image, gcall>>

\* After the loop: arcade_free_group and arcade_quit.
AsteroidCleanup ==
    /\ game.name = "asteroids"
    /\ pc = "exited"
    /\ LET g == ArcadeFreeGroup(group, heap)
           r == ArcadeQuit(platform, [NoResources EXCEPT !.handles = handles,
                                                         !.held = held,
                                                         !.misuse = misuse])
       IN  /\ heap' = g.heap
           /\ group' = g.group
           /\ handles' = r.handles
           /\ held' = r.held
           /\ misuse' = r.misuse
    /\ pixels' = <<>>
    /\ pc' = "quit"
    /\ UNCHANGED <<platform, queue, key_states, last_key_states, running,
                   global_frame_counter, call, hist, win, initCall, player, game,
                   pipe, fault, sc, paddle, ball, last_time, screen, blink, image, gcall>>

\* rand() is read by the spawn test of an asteroid that is inactive, in a
\* tick in Playing: the values it can give to the asteroids of a tick.
RockInputs ==
    {r \in [1..MAX_ASTEROIDS -> Rocks] :
        \A i \in 1..MAX_ASTEROIDS :
            (game.state # "Playing" \/ game.asteroids[i].sprite.active # 0)
                => r[i] = NoRock}

\* arcade_delta_time gives 0 at its first call and the time of a frame, which
\* arcade_sleep(16) keeps positive, at every later one
AsteroidScales == IF game.ticks = 0 THEN {0} ELSE {ToFloat(1)}

AsteroidNext ==
    \/ \E q \in FlappyQueues({a_space, a_right, a_r}), scale \in AsteroidScales :
           \E rocks \in RockInputs : AsteroidTick(q, scale, rocks)
    \/ AsteroidCleanup

SpecAsteroids == AsteroidInit /\ [][AsteroidNext]_vars

(***************************************************************************)
(* Properties of Asteroids.                                                *)
(***************************************************************************)
\* C34: in Asteroids all asteroids are removed from the screen in the
\* GameOver state: whenever the scene is rendered in a tick that begins with
\* state == GameOver, no active asteroid is in the rendered group.
C34_NoRocksInGameOver ==
    (game.name = "asteroids" /\ game.was = "GameOver") => game.shown = 0

\* The first tick that begins in GameOver has run: it rendered the asteroid
\* that hit the ship, and its case GameOver then deactivated the asteroids.
C34_RockShownInGameOver ==
    /\ game.name = "asteroids"
    /\ game.was = "GameOver"
    /\ game.shown > 0
    /\ game.player.active = 0
    /\ \A i \in 1..MAX_ASTEROIDS : game.asteroids[i].sprite.active = 0

(***************************************************************************)
(* Paddle Ball (part_002, the first program of the file): main and its     *)
(* loop.  The window is WindowWidth x MaxHeight pixels; the bricks are one *)
(* row of squares of one pixel on the first row, without gaps or margins,  *)
(* the paddle is a square of one pixel on the last row and the ball a      *)
(* square of one pixel.                                                    *)
(***************************************************************************)
MAX_BRICKS == 2
MaxPaddleTicks == 12

\* int lives = 3
Lives == 3

\* float paddle_speed = 8.0f, float ball_speed = 6.0f, scaled
PaddleSpeed == 1
BallSpeed == ToFloat(2)

\* 0x0000FF: the colour of the paddle
Blue == 255

PADDLE_WIDTH == ToFloat(1)
BALL_SIZE == ToFloat(1)

\* (rand() % 60 + 60) degrees: the velocity of a released ball at 60, 90 and
\* 120 degrees, ball_speed * cosf(angle) and -ball_speed * sinf(angle) on the
\* grid of the floats
Launches ==
    {[vx |-> BallSpeed \div 2, vy |-> -(BallSpeed - 1)],
     [vx |-> 0, vy |-> -BallSpeed],
     [vx |-> -(BallSpeed \div 2), vy |-> -(BallSpeed - 1)]}

\* ArcadeSprite paddle = { ... }
PaddleInit ==
    [x |-> ToFloat(WindowWidth) \div 2 - PADDLE_WIDTH \div 2,
     y |-> ToFloat(MaxHeight - 1), width |-> PADDLE_WIDTH, height |-> ToFloat(1),
     vy |-> 0, vx |-> 0, color |-> Blue, active |-> 1]

\* ArcadeSprite ball = { ... }
BallInit ==
    [x |-> PaddleInit.x + PADDLE_WIDTH \div 2 - BALL_SIZE \div 2,
     y |-> PaddleInit.y - BALL_SIZE, width |-> BALL_SIZE, height |-> BALL_SIZE,
     vy |-> 0, vx |-> 0, color |-> White, active |-> 1]

\* The grid that main's initialisation and the restart build: every brick
\* active, brick i in column i - 1 of the first row.
BricksInit ==
    [i \in 1..MAX_BRICKS |->
        [sprite |-> [x |-> ToFloat(i - 1), y |-> 0, width |-> ToFloat(1),
                     height |-> ToFloat(1), vy |-> 0, vx |-> 0, color |-> Red,
                     active |-> 1]]]

\* the bricks that are active
ActiveBricks(bricks) == {i \in 1..MAX_BRICKS : bricks[i].sprite.active # 0}

\* The group of a tick: the paddle, the ball and the bricks that are active.
RECURSIVE AddBricks(_, _, _, _)
AddBricks(r, bricks, i, brick_count) ==
    IF i > brick_count THEN r
    ELSE AddBricks(IF bricks[i].sprite.active # 0
                   THEN AddCounted(r, bricks[i].sprite, SPRITE_COLOR)
                   ELSE r,
                   bricks, i + 1, brick_count)

PaddleScene(g, pad, b, bricks, brick_count) ==
    LET r0 == [group |-> [g EXCEPT !.count = 0], fault |-> FALSE, full |-> FALSE]
        r1 == IF pad.active # 0 THEN AddCounted(r0, pad, SPRITE_COLOR) ELSE r0
        r2 == IF b.active # 0 THEN AddCounted(r1, b, SPRITE_COLOR) ELSE r1
    IN  AddBricks(r2, bricks, 1, brick_count)

\* case Playing: the paddle follows the arrow keys and stays in the window
MovePaddle(m, scale) ==
    LET vx == IF ArcadeKeyPressed(platform, m.ks, a_right) = 2 /\ m.paddle.active # 0
              THEN PaddleSpeed
              ELSE IF ArcadeKeyPressed(platform, m.ks, a_left) = 2 /\ m.paddle.active # 0
              THEN -PaddleSpeed
              ELSE 0
        x == m.paddle.x + FloatMul(vx, scale)
        s == [m.paddle EXCEPT !.vx = vx]
    IN  [m EXCEPT !.paddle =
            IF s.active = 0 THEN s
            ELSE IF x < 0 THEN [s EXCEPT !.x = 0]
            ELSE IF x + s.width > ToFloat(WindowWidth)
            THEN [s EXCEPT !.x = ToFloat(WindowWidth) - s.width]
            ELSE [s EXCEPT !.x = x]]

\* case Playing: Space releases a ball that is stuck, at the angle rand() gives
ReleaseBall(m, launch) ==
    LET k == ArcadeKeyPressedOnce(platform, m.ks, m.lks, a_space)
    IN  IF k.ret = 2 /\ m.ball_stuck # 0
        THEN [m EXCEPT !.lks = k.lks, !.ball_stuck = 0,
                       !.ball.vx = launch.vx, !.ball.vy = launch.vy]
        ELSE [m EXCEPT !.lks = k.lks]

\* case Playing: the ball moves and is reflected by the walls
BallWalls(m, scale) ==
    LET b0 == [m.ball EXCEPT !.x = @ + FloatMul(m.ball.vx, scale),
                             !.y = @ + FloatMul(m.ball.vy, scale)]
        b1 == IF b0.x <= 0 THEN [b0 EXCEPT !.x = 0, !.vx = -@]
              ELSE IF b0.x + b0.width >= ToFloat(WindowWidth)
              THEN [b0 EXCEPT !.x = ToFloat(WindowWidth) - b0.width, !.vx = -@]
              ELSE b0
    IN  [m EXCEPT !.ball = IF b1.y <= 0 THEN [b1 EXCEPT !.y = 0, !.vy = -@] ELSE b1]

\* case Playing: the paddle reflects the ball, with a horizontal velocity
\* that follows the place of the hit
BallPaddle(m) ==
    IF ArcadeCheckCollision(FALSE, m.ball, FALSE, m.paddle) # 0
    THEN [m EXCEPT !.ball =
             [@ EXCEPT !.y = m.paddle.y - m.ball.height,
                       !.vy = -m.ball.vy,
                       !.vx = (BallSpeed * (2 * (m.ball.x + m.ball.width \div 2 - m.paddle.x)
                                            - m.paddle.width)) \div m.paddle.width]]
    ELSE m

\* A variant of the loop over the bricks without its break: every brick the
\* ball touches is destroyed.
RECURSIVE BallBricksAll(_, _)
BallBricksAll(m, i) ==
    IF i > m.brick_count THEN m
    ELSE IF /\ m.bricks[i].sprite.active # 0
            /\ ArcadeCheckCollision(FALSE, m.ball, FALSE, m.bricks[i].sprite) # 0
    THEN LET score == m.score + 10
         IN  BallBricksAll([m EXCEPT !.bricks[i].sprite.active = 0,
                                     !.score = score,
                                     !.high_score = IF score > @ THEN score ELSE @,
                                     !.ball.vy = -@], i + 1)
    ELSE BallBricksAll(m, i + 1)

\* case Playing: the first active brick the ball touches is destroyed, for
\* 10 points, and the loop ends
RECURSIVE BallBricks(_, _)
BallBricks(m, i) ==
    IF i > m.brick_count THEN m
    ELSE IF /\ m.bricks[i].sprite.active # 0
            /\ ArcadeCheckCollision(FALSE, m.ball, FALSE, m.bricks[i].sprite) # 0
    THEN LET score == m.score + 10
         IN  [m EXCEPT !.bricks[i].sprite.active = 0,
                       !.score = score,
                       !.high_score = IF score > @ THEN score ELSE @,
                       !.ball.vy = -@]
    ELSE BallBricks(m, i + 1)

\* case Playing: a ball below the window costs a life
BallFalls(m) ==
    IF m.ball.y + m.ball.height > ToFloat(MaxHeight)
    THEN IF m.lives - 1 <= 0
         THEN [m EXCEPT !.lives = @ - 1, !.state = "GameOver",
                        !.paddle.active = 0, !.ball.active = 0]
         ELSE [m EXCEPT !.lives = @ - 1, !.ball_stuck = 1,
                        !.ball.x = m.paddle.x + PADDLE_WIDTH \div 2 - BALL_SIZE \div 2,
                        !.ball.y = m.paddle.y - BALL_SIZE,
                        !.ball.vx = 0, !.ball.vy = 0]
    ELSE m

\* case Playing: the game ends when no brick is left
WinCheck(m) ==
    IF Cardinality({i \in 1..m.brick_count : m.bricks[i].sprite.active # 0}) = 0
    THEN [m EXCEPT !.state = "GameOver", !.paddle.active = 0, !.ball.active = 0]
    ELSE m

\* case Playing
PaddlePlaying(m, scale, launch) ==
    LET m1 == ReleaseBall(MovePaddle(m, scale), launch)
    IN  WinCheck(IF m1.ball_stuck = 0
                 THEN BallFalls(BallBricks(BallPaddle(BallWalls(m1, scale)), 1))
                 ELSE [m1 EXCEPT
                          !.ball.x = m1.paddle.x + PADDLE_WIDTH \div 2 - BALL_SIZE \div 2,
                          !.ball.y = m1.paddle.y - BALL_SIZE])

\* case Start
PaddleStart(m) ==
    LET k == ArcadeKeyPressedOnce(platform, m.ks, m.lks, a_space)
        c == ArcadeClearKeys(m.ks, k.lks)
    IN  IF k.ret = 2
        THEN [m EXCEPT !.ks = c.ks, !.lks = c.lks, !.state = "Playing"]
        ELSE [m EXCEPT !.lks = k.lks]

\* case GameOver: R restarts with a new grid, no points and all lives
PaddleGameOver(m) ==
    LET k == ArcadeKeyPressedOnce(platform, m.ks, m.lks, a_r)
        c == ArcadeClearKeys(m.ks, k.lks)
    IN  IF k.ret = 2
        THEN [m EXCEPT !.ks = c.ks, !.lks = c.lks,
                       !.paddle = PaddleInit,
                       !.ball = BallInit,
                       !.ball_stuck = 1,
                       !.brick_count = MAX_BRICKS,
                       !.bricks = BricksInit,
                       !.score = 0,
                       !.lives = Lives,
                       !.state = "Playing"]
        ELSE [m EXCEPT !.lks = k.lks]

\* switch (state)
PaddleSwitch(m, scale, launch) ==
    CASE m.state = "Start" -> PaddleStart(m)
      [] m.state = "Playing" -> PaddlePlaying(m, scale, launch)
      [] OTHER -> PaddleGameOver(m)

\* The program at the head of its main loop: the sprites and the grid are
\* initialised, the group is allocated and arcade_init has returned 0.
PaddleBallInit ==
    /\ platform \in Platforms
    /\ queue = <<>>
    /\ global_frame_counter = 0
    /\ pc = "cond"
    /\ call = NoCall
    /\ hist = HistInit
    /\ LET r == ArcadeInit(platform, WindowWidth, MaxHeight, 0, "none", NoResources)
       IN  /\ running = r.running
           /\ handles = r.handles
           /\ win = r.win
           /\ pixels = r.pixels
           /\ held = r.held
           /\ initCall = [ret |-> r.ret, acq |-> r.acq, rel |-> r.rel]
           /\ misuse = r.misuse
    /\ LET g == ArcadeInitGroup(MAX_BRICKS + 2, TRUE, TRUE, <<>>)
       IN  /\ group = g.group
           /\ heap = g.heap
    /\ fault = FALSE
    /\ paddle = PaddleInit
    /\ ball = BallInit
    /\ game = [name |-> "paddle", state |-> "Start", score |-> 0, high_score |-> 0,
               lives |-> Lives, ball_stuck |-> 1, bricks |-> BricksInit,
               brick_count |-> MAX_BRICKS, ticks |-> 0, was |-> "none", broken |-> 0,
               full |-> FALSE]
    /\ key_states = [s \in AsteroidSlots |-> 0]
    /\ last_key_states = [s \in AsteroidSlots |-> 0]
    /\ player = EmptyAnim
    /\ pipe = NoSprite
    /\ sc = NoSpriteCall
    /\ last_time = 0
    /\ screen = <<>>
    /\ blink = NoBlink
    /\ image = NoImage
    /\ gcall = NoSceneCall

\* One turn of `while (arcade_running() && arcade_update()) { ... }`: the
\* events q are pumped, and unless the window was closed the body runs: the
\* group is rebuilt and rendered, then the case of `state` runs with the
\* scale of the tick and the angle rand() gives to a release.
PaddleTick(q, scale, launch) ==
    /\ game.name = "paddle"
    /\ pc = "cond"
    /\ game.ticks < MaxPaddleTicks \/ q = <<[type |-> "Close", sym |-> 0]>>
    /\ LET u == ArcadeUpdate(platform, q, key_states, running, global_frame_counter)
       IN  IF ArcadeRunning(running) = 0
           THEN /\ pc' = "exited"
                /\ UNCHANGED <<key_states, last_key_states, running, global_frame_counter,
                               fault, group, pixels, screen, game, paddle, ball>>
           ELSE IF u.ret = 0
           THEN /\ pc' = "exited"
                /\ key_states' = u.ks
                /\ running' = u.running
                /\ global_frame_counter' = u.gfc
                /\ UNCHANGED <<last_key_states, fault, group, pixels, screen, game,
                               paddle, ball>>
           ELSE \E scene \in {PaddleScene(group, paddle, ball, game.bricks,
                                          game.brick_count)} :
                LET drawn == ArcadeRenderGroup(scene.group, pixels, win)
                    texts == AsteroidTexts(game.state, u.gfc, drawn, drawn)
                    m == [state |-> game.state, score |-> game.score,
                          high_score |-> game.high_score, lives |-> game.lives,
                          ball_stuck |-> game.ball_stuck, bricks |-> game.bricks,
                          brick_count |-> game.brick_count,
                          paddle |-> paddle, ball |-> ball, ks |-> u.ks,
                          lks |-> last_key_states]
                IN  \E n \in {PaddleSwitch(m, scale, launch)} :
                    /\ pc' = "cond"
                    /\ key_states' = n.ks
                    /\ last_key_states' = n.lks
                    /\ running' = u.running
                    /\ global_frame_counter' = u.gfc
                    /\ fault' = (fault \/ scene.fault)
                    /\ group' = scene.group
                    /\ pixels' = texts.pixels
                    /\ screen' = texts.screen
                    /\ paddle' = n.paddle
                    /\ ball' = n.ball
                    /\ game' = [game EXCEPT
                          !.state = n.state, !.score = n.score,
                          !.high_score = n.high_score, !.lives = n.lives,
                          !.ball_stuck = n.ball_stuck, !.bricks = n.bricks,
                          !.brick_count = n.brick_count,
                          !.ticks = @ + 1,
                          !.was = game.state,
                          !.broken = Cardinality(ActiveBricks(game.bricks)
                                                    \ ActiveBricks(n.bricks)),
                          !.full = @ \/ scene.full]
    /\ UNCHANGED <<platform, queue, call, hist, handles, win, held, initCall, misuse,
                   player, heap, pipe, sc, last_time, blink, image, gcall>>

\* After the loop: arcade_free_group and arcade_quit.
PaddleCleanup ==
    /\ game.name = "paddle"
    /\ pc = "exited"
    /\ LET g == ArcadeFreeGroup(group, heap)
           r == ArcadeQuit(platform, [NoResources EXCEPT !.handles = handles,
                                                         !.held = held,
                                                         !.misuse = misuse])
       IN  /\ heap' = g.heap
           /\ group' = g.group
           /\ handles' = r.handles
           /\ held' = r.held
           /\ misuse' = r.misuse
    /\ pixels' = <<>>
    /\ pc' = "quit"
    /\ UNCHANGED <<platform, queue, key_states, last_key_states, running,
                   global_frame_counter, call, hist, win, initCall, player, game,
                   pipe, fault, sc, paddle, ball, last_time, screen, blink, image, gcall>>

\* rand() is read by the release of a stuck ball, in a tick in Playing: the
\* values it can give to a tick.
LaunchInputs ==
    IF game.state = "Playing" /\ game.ball_stuck # 0 THEN Launches
    ELSE {[vx |-> 0, vy |-> -BallSpeed]}

PaddleNext ==
    \/ \E q \in FlappyQueues(AsteroidKeys), scale \in AsteroidScales :
           \E launch \in LaunchInputs : PaddleTick(q, scale, launch)
    \/ PaddleCleanup

SpecPaddle == PaddleBallInit /\ [][PaddleNext]_vars

(***************************************************************************)
(* Properties of Paddle Ball.                                              *)
(***************************************************************************)
\* C35: in Paddle Ball each brick awards 10 points exactly once.  In every
\* reachable state score is 10 times the number of bricks destroyed since
\* the last start or restart, 10 * (MAX_BRICKS - number of active bricks); a
\* tick destroys at most one brick; high_score >= score; and lives stays
\* within 0..3.
C35_TenPerBrick ==
    game.name = "paddle" =>
        /\ game.score = 10 * (MAX_BRICKS - Cardinality(ActiveBricks(game.bricks)))
        /\ game.broken <= 1
        /\ game.high_score >= game.score
        /\ game.lives \in 0..Lives

\* The last life is lost with one brick destroyed: the game is over with
\* lives = 0, 10 points and the other brick still in the grid.
C35_Witness ==
    /\ game.name = "paddle"
    /\ game.state = "GameOver"
    /\ game.lives = 0
    /\ game.score = 10
    /\ game.high_score = 10
    /\ Cardinality(ActiveBricks(game.bricks)) = MAX_BRICKS - 1

(***************************************************************************)
(* The per-frame group of Flappy Bird.                                     *)
(***************************************************************************)
\* Every add to the group of Flappy Bird, the background, the bird and the
\* pipes, happens while count < capacity (MAX_PIPES + 2).
FlappyGroupHasRoom == game.name = "flappy" => ~game.full

\* A frame with MAX_PIPES pipes: the group is filled to its capacity.
FlappyGroupFilled ==
    /\ game.name = "flappy"
    /\ game.pipe_count = MAX_PIPES
    /\ group.count = group.capacity
    /\ ~game.full
=============================================================================
